---- MODULE Spec2Model ----
(***************************************************************************)
(* A model of the worker admin commands of open-lambda                     *)
(* (src/src/worker/worker.go): overrideOpts, the readiness loop of         *)
(* `up --detach`, `down`, and `cleanup` (force-cleanup).                   *)
(*                                                                         *)
(* Go strings are modelled as sequences of one-character strings, so that  *)
(* strings.Split, strings.TrimSpace, strings.ToLower, strings.HasPrefix    *)
(* and strconv.Atoi are computed, not assumed.                             *)
(***************************************************************************)
EXTENDS Integers, Sequences, FiniteSets, TLC

(***************************************************************************)
(* Bounds of the model.                                                    *)
(***************************************************************************)
\* the longest override list (number of comma-separated pairs) drawn in Init
MaxPairs == 2
\* the most mounts stacked on one mount point when cleanup starts
MaxLayers == 2

(***************************************************************************)
(* The state.  Each command is checked under a specification of its own    *)
(* (SpecOverride, SpecUp, SpecDown, SpecCleanup); the variables of the     *)
(* other commands then keep their idle values.                             *)
(***************************************************************************)
VARIABLES
    \* overrideOpts
    confFile,       \* <olPath>/config.json
    overridesFile,  \* <olPath>/config.json.overrides
    optsStr,        \* the optsStr argument
    ovPc,           \* "read", "loop", "done"
    conf,           \* the decoded map being edited
    opts,           \* strings.Split(optsStr, ",")
    optIdx,         \* index of the next element of opts
    ovErr,          \* "running", then "nil" or the error returned
    confFile0,      \* history: confFile when overrideOpts was called
    overridesFile0, \* history: overridesFile when overrideOpts was called
    \* up --detach, from line 298
    upPc,       \* "select" (top of the loop body), "get", "done"
    i,          \* the loop counter of line 309
    pingErr,    \* line 307
    upErr,      \* "running", then what up returns: "nil" or the error
    upErrArg,   \* the error value formatted into the returned error
    procPid,    \* proc.Pid
    child,      \* the child process: "running" or "exited"
    watcher,    \* the goroutine: "waiting" in proc.Wait, "sending" (blocked
                \* in died <- err), "done" (its value was received)
    diedVal,    \* the value the goroutine sends on died
    gets,       \* history: number of http.Get calls issued
    lastGet,    \* history: the attempt and outcome of the last http.Get
    connFails,  \* history: attempts that ended in a connection failure
    recvd,      \* history: number of values received from died
    probeErr,   \* the error of the last proc.Signal(0) of line 321
    \* down, from line 383
    downPc,     \* "signal", "probe", "done"
    probeIdx,   \* the loop counter of line 394
    downErr,    \* "running", then what down returns
    target,     \* the process named by worker.pid: "alive" or "dead"
    maySignal,  \* whether the caller is permitted to signal the target
    sigints,    \* history: calls of p.Signal(syscall.SIGINT)
    probes,     \* history: calls of p.Signal(syscall.Signal(0))
    probeFails, \* history: zero-signal probes that returned an error
    \* cleanup
    clPc,       \* the statement cleanup is at
    clFiles,    \* the files of the ioutil.ReadDir being looped over
    clIdx,      \* index into clFiles of the next file
    clErr,      \* "running", then what cleanup returns
    fs,         \* the cgroups, mounts and files cleanup works on
    privileged, \* whether the caller may change them
    clLog,      \* history: the system calls attempted in this run
    run,        \* history: 1 in the first run of cleanup, 2 in a rerun
    fs0,        \* history: fs when the first run started
    fs1,        \* history: fs when the first run returned
    clLog1,     \* history: clLog of the first run
    \* a sequence of commands on one environment path
    made,       \* what initOLDir has created under olPath and not removed
    baseConf,   \* <olPath>/config.json
    overConf,   \* <olPath>/config.json.overrides
    envCmd,     \* the command that runs or ran last: "new", "up", "down", ...
    envPc,      \* the statement that command is at
    initIdx,    \* index in InitSteps of the next step of initOLDir
    initLog,    \* history: the steps the current initOLDir attempted
    envErr,     \* "running", then what the command returns
    upOpts,     \* ctx.String("options") of the current up
    upDetach,   \* ctx.Bool("detach") of the current up
    confPath,   \* the file up hands to common.LoadConf: "base", "overrides"
    Conf,       \* common.Conf of the process that runs the command
    worker,     \* the worker the last up started, with its configuration
    reached,    \* history: what the last down, status or cleanup addressed
    initOk,     \* history: an initOLDir of this path has run to its end
    cmds,       \* history: number of commands started
    \* the argument list of `up --detach`
    osArgs,     \* os.Args after the program and command names
    argPc,      \* "parse", "strip", "start", "done"
    argIdx,     \* index into osArgs of the next argument of the loop
    cmd,        \* the argument list built for the child (line 280)
    depth       \* history: how many detached children were started in a row

ovVars == << confFile, overridesFile, optsStr, ovPc, conf, opts, optIdx,
             ovErr, confFile0, overridesFile0 >>

\* the value formatted into the error that up returns: a text (an error's
\* message, "nil" when there is none) or a PID
ArgText(s) == [ text |-> s, pid |-> 0 ]
ArgPid(n) == [ text |-> "pid", pid |-> n ]

upVars == << upPc, i, pingErr, upErr, upErrArg, procPid, child, watcher,
             diedVal, gets, lastGet, connFails, recvd, probeErr >>

downVars == << downPc, probeIdx, downErr, target, maySignal, sigints,
               probes, probeFails >>

clVars == << clPc, clFiles, clIdx, clErr, fs, privileged, clLog, run, fs0,
             fs1, clLog1 >>

envVars == << made, baseConf, overConf, envCmd, envPc, initIdx, initLog,
              envErr, upOpts, upDetach, confPath, Conf, worker, reached,
              initOk, cmds >>

argVars == << osArgs, argPc, argIdx, cmd, depth >>

vars == << ovVars, upVars, downVars, clVars, envVars, argVars >>

(***************************************************************************)
(* Go library functions on strings.                                        *)
(***************************************************************************)

\* the index of the first occurrence of the one-character separator, 0 if none
IndexOf(s, sep) ==
    IF \E k \in 1..Len(s) : s[k] = sep
    THEN CHOOSE k \in 1..Len(s) : s[k] = sep /\ \A j \in 1..(k-1) : s[j] # sep
    ELSE 0

RECURSIVE Split(_, _)
\* strings.Split(s, sep) for a one-character sep: always at least one element
Split(s, sep) ==
    LET k == IndexOf(s, sep) IN
    IF k = 0 THEN << s >>
    ELSE << SubSeq(s, 1, k-1) >> \o Split(SubSeq(s, k+1, Len(s)), sep)

RECURSIVE Join(_, _)
\* strings.Join(elems, sep): how a command line's -o argument is built up
Join(elems, sep) ==
    IF Len(elems) = 0 THEN << >>
    ELSE IF Len(elems) = 1 THEN elems[1]
    ELSE elems[1] \o << sep >> \o Join(Tail(elems), sep)

UpperChars == << "A","B","C","D","E","F","G","H","I","J","K","L","M",
                 "N","O","P","Q","R","S","T","U","V","W","X","Y","Z" >>
LowerChars == << "a","b","c","d","e","f","g","h","i","j","k","l","m",
                 "n","o","p","q","r","s","t","u","v","w","x","y","z" >>

\* strings.ToLower on the ASCII letters
ToLower(s) ==
    [ k \in 1..Len(s) |->
        IF \E u \in 1..26 : UpperChars[u] = s[k]
        THEN LowerChars[CHOOSE u \in 1..26 : UpperChars[u] = s[k]]
        ELSE s[k] ]

IsSpace(ch) == ch \in { " ", "\n", "\t", "\r" }

RECURSIVE TrimLeft(_)
TrimLeft(s) ==
    IF Len(s) > 0 /\ IsSpace(s[1]) THEN TrimLeft(Tail(s)) ELSE s

RECURSIVE TrimRight(_)
TrimRight(s) ==
    IF Len(s) > 0 /\ IsSpace(s[Len(s)])
    THEN TrimRight(SubSeq(s, 1, Len(s)-1)) ELSE s

\* strings.TrimSpace
TrimSpace(s) == TrimRight(TrimLeft(s))

\* strings.HasPrefix
HasPrefix(s, prefix) ==
    Len(s) >= Len(prefix) /\ SubSeq(s, 1, Len(prefix)) = prefix

Digits == << "0","1","2","3","4","5","6","7","8","9" >>
IsDigit(ch) == \E d \in 1..10 : Digits[d] = ch
DigitVal(ch) == (CHOOSE d \in 1..10 : Digits[d] = ch) - 1

RECURSIVE DigitsVal(_)
DigitsVal(s) ==
    IF Len(s) = 0 THEN 0
    ELSE 10 * DigitsVal(SubSeq(s, 1, Len(s)-1)) + DigitVal(s[Len(s)])

\* the digits of s after an optional sign
AtoiBody(s) ==
    IF Len(s) > 0 /\ s[1] \in { "+", "-" } THEN Tail(s) ELSE s

\* strconv.Atoi succeeds on an optional sign followed by one or more digits
AtoiOk(s) ==
    /\ Len(AtoiBody(s)) > 0
    /\ \A k \in 1..Len(AtoiBody(s)) : IsDigit(AtoiBody(s)[k])

\* the value strconv.Atoi returns: 0 together with a syntax error
AtoiVal(s) ==
    IF ~AtoiOk(s) THEN 0
    ELSE IF s[1] = "-" THEN 0 - DigitsVal(AtoiBody(s))
    ELSE DigitsVal(AtoiBody(s))

(***************************************************************************)
(* Files and JSON.  A file is Absent, Truncated (created or truncated by a *)
(* write that then failed) or holds a JSON value [t, v] with t one of      *)
(* "string", "number", "bool", "object", "null", "array".  In memory,      *)
(* encoding/json decodes into Go values whose dynamic type t is one of     *)
(* "string", "float64", "bool", "map", "nil", "slice"; strconv.Atoi        *)
(* yields the further dynamic type "int".                                  *)
(***************************************************************************)
Absent == [ t |-> "absent", v |-> << >> ]
Truncated == [ t |-> "truncated", v |-> << >> ]

JStr(s) == [ t |-> "string", v |-> s ]
JNum(n) == [ t |-> "number", v |-> n ]
JBool(b) == [ t |-> "bool", v |-> b ]
JObj(f) == [ t |-> "object", v |-> f ]
JNull == [ t |-> "null", v |-> << >> ]
JArr == [ t |-> "array", v |-> << >> ]

RECURSIVE Unmarshal(_)
\* json.Unmarshal into map[string]any / any
Unmarshal(j) ==
    CASE j.t = "object" ->
            [ t |-> "map", v |-> [ k \in DOMAIN j.v |-> Unmarshal(j.v[k]) ] ]
      [] j.t = "number" -> [ t |-> "float64", v |-> j.v ]
      [] j.t = "null" -> [ t |-> "nil", v |-> j.v ]
      [] j.t = "array" -> [ t |-> "slice", v |-> j.v ]
      [] OTHER -> j

RECURSIVE Marshal(_)
\* json.MarshalIndent of a Go value
Marshal(g) ==
    CASE g.t = "map" ->
            [ t |-> "object", v |-> [ k \in DOMAIN g.v |-> Marshal(g.v[k]) ] ]
      [] g.t \in { "float64", "int" } -> [ t |-> "number", v |-> g.v ]
      [] g.t = "nil" -> [ t |-> "null", v |-> g.v ]
      [] g.t = "slice" -> [ t |-> "array", v |-> g.v ]
      [] OTHER -> g

(***************************************************************************)
(* The idle values of each command's variables.                            *)
(***************************************************************************)
EmptyMap == [ t |-> "map", v |-> << >> ]

NoGet == [ attempt |-> -1, out |-> [ ok |-> FALSE, err |-> "nil", body |-> << >> ] ]

OvIdle ==
    /\ confFile = Absent /\ overridesFile = Absent /\ optsStr = << >>
    /\ ovPc = "idle" /\ conf = EmptyMap /\ opts = << >> /\ optIdx = 0
    /\ ovErr = "running" /\ confFile0 = Absent /\ overridesFile0 = Absent

UpIdle ==
    /\ upPc = "idle" /\ i = 0 /\ pingErr = "nil"
    /\ upErr = "running" /\ upErrArg = ArgText("nil") /\ procPid = 0
    /\ child = "none" /\ watcher = "none" /\ diedVal = "nil"
    /\ gets = 0 /\ lastGet = NoGet /\ connFails = 0 /\ recvd = 0
    /\ probeErr = "nil"

DownIdle ==
    /\ downPc = "idle" /\ probeIdx = 0 /\ downErr = "running"
    /\ target = "none" /\ maySignal = FALSE
    /\ sigints = 0 /\ probes = 0 /\ probeFails = 0

ClIdle ==
    /\ clPc = "idle" /\ clFiles = << >> /\ clIdx = 0 /\ clErr = "running"
    /\ fs = << >> /\ privileged = FALSE /\ clLog = << >> /\ run = 0
    /\ fs0 = << >> /\ fs1 = << >> /\ clLog1 = << >>

NoWorker == [ up |-> FALSE, conf |-> EmptyMap ]

NothingReached == [ op |-> "none", dir |-> << >>, port |-> << >> ]

EnvIdle ==
    /\ made = { } /\ baseConf = Absent /\ overConf = Absent
    /\ envCmd = "none" /\ envPc = "idle" /\ initIdx = 0 /\ initLog = << >>
    /\ envErr = "running" /\ upOpts = << >> /\ upDetach = FALSE
    /\ confPath = "none" /\ Conf = EmptyMap /\ worker = NoWorker
    /\ reached = NothingReached /\ initOk = FALSE /\ cmds = 0

ArgIdle ==
    /\ osArgs = << >> /\ argPc = "idle" /\ argIdx = 0 /\ cmd = << >>
    /\ depth = 0

(***************************************************************************)
(* overrideOpts: one key=val pair applied to the decoded configuration.    *)
(* A result is [err, c]: err = "nil" or the error returned, c the map      *)
(* after the statements that ran.                                          *)
(***************************************************************************)

\* setLeaf without the check that the leaf exists: a missing key is created
setLeafCreatesKey(c, key, val) ==
    IF key \notin DOMAIN c
    THEN [ err |-> "nil", c |-> (key :> [ t |-> "string", v |-> val ]) @@ c ]
    ELSE IF c[key].t = "string"
    THEN [ err |-> "nil",
           c |-> [ c EXCEPT ![key] = [ t |-> "string", v |-> val ] ] ]
    ELSE [ err |-> "editManually", c |-> c ]

\* the type switch on the existing leaf (lines 62-85)
setLeaf(c, key, val) ==
    IF key \notin DOMAIN c THEN [ err |-> "invalidOption", c |-> c ]
    ELSE CASE c[key].t = "string" ->
                [ err |-> "nil",
                  c |-> [ c EXCEPT ![key] = [ t |-> "string", v |-> val ] ] ]
           [] c[key].t = "float64" ->
                [ err |-> IF AtoiOk(val) THEN "nil" ELSE "atoiErr",
                  c |-> [ c EXCEPT ![key] = [ t |-> "int", v |-> AtoiVal(val) ] ] ]
           [] c[key].t = "bool" ->
                IF ToLower(val) = << "t","r","u","e" >>
                THEN [ err |-> "nil",
                       c |-> [ c EXCEPT ![key] = [ t |-> "bool", v |-> TRUE ] ] ]
                ELSE IF ToLower(val) = << "f","a","l","s","e" >>
                THEN [ err |-> "nil",
                       c |-> [ c EXCEPT ![key] = [ t |-> "bool", v |-> FALSE ] ] ]
                ELSE [ err |-> "notBoolean", c |-> c ]
           [] OTHER -> [ err |-> "editManually", c |-> c ]

RECURSIVE walkKeys(_, _, _)
\* the descent through the intermediate keys (lines 48-60), then the leaf;
\* Go maps are references, so an assignment below shows in the whole tree
walkKeys(c, keys, val) ==
    IF Len(keys) = 1 THEN setLeaf(c, keys[1], val)
    ELSE IF keys[1] \notin DOMAIN c THEN [ err |-> "keyNotFound", c |-> c ]
    ELSE IF c[keys[1]].t # "map" THEN [ err |-> "notAMap", c |-> c ]
    ELSE LET r == walkKeys(c[keys[1]].v, Tail(keys), val) IN
         [ err |-> r.err,
           c |-> [ c EXCEPT ![keys[1]] = [ t |-> "map", v |-> r.c ] ] ]

\* one iteration of the loop over opts (lines 40-86)
applyOpt(c, opt) ==
    LET parts == Split(opt, "=") IN
    IF Len(parts) # 2 THEN [ err |-> "couldNotParse", c |-> c ]
    ELSE walkKeys(c, Split(parts[1], "."), parts[2])

(***************************************************************************)
(* The inputs of overrideOpts drawn in Init.                               *)
(***************************************************************************)
K(ch) == << ch >>

BaseConfA ==
    JObj( K("s") :> JStr(<< "x" >>)
       @@ K("n") :> JNum(5)
       @@ K("b") :> JBool(TRUE)
       @@ K("z") :> JNull
       @@ K("m") :> JObj( K("n") :> JNum(1)
                       @@ K("b") :> JBool(FALSE)
                       @@ K("k") :> JObj( K("s") :> JStr(<< "y" >>) ) ) )

BaseConfB ==
    JObj( K("s") :> JStr(<< >>)
       @@ K("n") :> JNum(0)
       @@ K("a") :> JArr
       @@ K("m") :> JObj( K("n") :> JNum(2) ) )

BaseConfs == { BaseConfA, BaseConfB }

\* key=val pairs: valid ones of every category, and one per way of failing
OptPairs ==
    { << "s","=","y" >>,                      \* string leaf
      << "s","=" >>,                          \* string leaf, empty text
      << "n","=","7" >>,                      \* number leaf
      << "n","=","+","4" >>,                  \* number leaf, signed
      << "n","=","x" >>,                      \* number leaf, not an integer
      << "b","=","F","a","l","s","e" >>,      \* boolean leaf, mixed case
      << "b","=","n","o" >>,                  \* boolean leaf, not true/false
      << "m",".","n","=","-","3" >>,          \* nested number leaf
      << "m",".","b","=","t","r","u","e" >>,  \* nested boolean leaf
      << "m",".","k",".","s","=","n" >>,      \* leaf two levels down
      << "m",".","q","=","1" >>,              \* missing leaf
      << "q",".","n","=","1" >>,              \* missing intermediate key
      << "s",".","n","=","1" >>,              \* intermediate key not a map
      << "m","=","1" >>,                      \* leaf is a nested object
      << "z","=","1" >>,                      \* leaf is null
      << "a","=","1" >>,                      \* leaf is an array
      << "n" >>,                              \* no '='
      << "n","=","1","=","2" >>,              \* two '='
      << >> }                                 \* empty pair (trailing comma)

RECURSIVE OptLists(_)
\* the lists of 1..n pairs
OptLists(n) ==
    IF n = 0 THEN { }
    ELSE IF n = 1 THEN { << p >> : p \in OptPairs }
    ELSE OptLists(n-1) \cup
         { l \o << p >> : l \in { x \in OptLists(n-1) : Len(x) = n-1 },
                          p \in OptPairs }

\* ctx.String("options"): non-empty (line 245)
OptStrings == { Join(l, ",") : l \in OptLists(MaxPairs) } \ { << >> }

OvInit ==
    /\ confFile \in BaseConfs \cup { Absent }
    /\ overridesFile \in { Absent, BaseConfB }
    /\ optsStr \in OptStrings
    /\ ovPc = "read" /\ conf = EmptyMap /\ opts = << >> /\ optIdx = 0
    /\ ovErr = "running"
    /\ confFile0 = confFile /\ overridesFile0 = overridesFile

\* lines 30-39: read and decode confPath, split optsStr
OvRead ==
    /\ UNCHANGED << upVars, downVars, clVars, envVars, argVars >>
    /\ ovPc = "read"
    /\ IF confFile.t # "object"
       THEN /\ ovErr' = "readErr" /\ ovPc' = "done"
            /\ UNCHANGED << conf, opts, optIdx >>
       ELSE /\ conf' = Unmarshal(confFile)
            /\ opts' = Split(optsStr, ",")
            /\ optIdx' = 1
            /\ ovPc' = "loop"
            /\ UNCHANGED ovErr
    /\ UNCHANGED << confFile, overridesFile, optsStr, confFile0, overridesFile0 >>

\* OvOpt saving the configuration after every pair instead of after the loop
OvOptSavesEachPair ==
    /\ UNCHANGED << upVars, downVars, clVars, envVars, argVars >>
    /\ ovPc = "loop"
    /\ optIdx <= Len(opts)
    /\ LET r == applyOpt(conf.v, opts[optIdx]) IN
         /\ conf' = [ t |-> "map", v |-> r.c ]
         /\ IF r.err = "nil"
            THEN /\ optIdx' = optIdx + 1
                 /\ overridesFile' = Marshal(conf')
                 /\ UNCHANGED << ovErr, ovPc >>
            ELSE /\ ovErr' = r.err /\ ovPc' = "done"
                 /\ UNCHANGED << optIdx, overridesFile >>
    /\ UNCHANGED << confFile, optsStr, opts, confFile0, overridesFile0 >>

\* lines 40-86: one iteration; the first failing pair returns its error
OvOpt ==
    /\ UNCHANGED << upVars, downVars, clVars, envVars, argVars >>
    /\ ovPc = "loop"
    /\ optIdx <= Len(opts)
    /\ LET r == applyOpt(conf.v, opts[optIdx]) IN
         /\ conf' = [ t |-> "map", v |-> r.c ]
         /\ IF r.err = "nil"
            THEN /\ optIdx' = optIdx + 1
                 /\ UNCHANGED << ovErr, ovPc >>
            ELSE /\ ovErr' = r.err /\ ovPc' = "done"
                 /\ UNCHANGED optIdx
    /\ UNCHANGED << confFile, overridesFile, optsStr, opts, confFile0,
                    overridesFile0 >>

\* what ioutil.WriteFile(overridePath, s, 0644) leaves behind: the file
\* written, or untouched when it cannot be opened, or truncated when the
\* write fails after the open
WriteFileOutcomes == { "written", "openErr", "writeErr" }

\* lines 88-97: the loop is over; encode and write overridePath
OvSave ==
    /\ UNCHANGED << upVars, downVars, clVars, envVars, argVars >>
    /\ ovPc = "loop"
    /\ optIdx > Len(opts)
    /\ \E w \in WriteFileOutcomes :
         /\ overridesFile' = CASE w = "written" -> Marshal(conf)
                                [] w = "openErr" -> overridesFile
                                [] OTHER -> Truncated
         /\ ovErr' = IF w = "written" THEN "nil" ELSE "writeErr"
    /\ ovPc' = "done"
    /\ UNCHANGED << confFile, optsStr, conf, opts, optIdx, confFile0,
                    overridesFile0 >>

overrideOpts == OvRead \/ OvOpt \/ OvSave

NextOverride == overrideOpts

InitOverride ==
    OvInit /\ UpIdle /\ DownIdle /\ ClIdle /\ EnvIdle /\ ArgIdle

SpecOverride == InitOverride /\ [][NextOverride]_vars

(***************************************************************************)
(* Properties of overrideOpts.                                             *)
(***************************************************************************)
RECURSIVE KeyPaths(_)
\* the key paths of a JSON value: every path to a member of a nested object
KeyPaths(j) ==
    IF j.t # "object" THEN { }
    ELSE UNION { { << k >> } \cup { << k >> \o q : q \in KeyPaths(j.v[k]) }
                 : k \in DOMAIN j.v }

RECURSIVE At(_, _)
\* the JSON value at a key path
At(j, path) == IF Len(path) = 0 THEN j ELSE At(j.v[path[1]], Tail(path))

\* the type-category of a JSON value
Category(j) == IF j.t \in { "null", "array" } THEN "other" ELSE j.t

SameValue(a, b) == a.t = b.t /\ a.v = b.v

\* the pairs of the override list, as given on the command line
GivenPairs == Split(optsStr, ",")

\* a pair that the base configuration alone rejects
FailsOnBase(pair) ==
    applyOpt(Unmarshal(confFile0).v, pair).err # "nil"

\* the key paths that the pairs of the list name
NamedPaths ==
    { Split(Split(GivenPairs[k], "=")[1], ".") : k \in 1..Len(GivenPairs) }

\* the errors that a pair of the list can fail with (lines 43-84)
PairErrs ==
    { "couldNotParse", "keyNotFound", "notAMap", "invalidOption", "atoiErr",
      "notBoolean", "editManually" }

\* C9: if any pair of the override list fails (malformed, missing
\* intermediate or leaf key, intermediate not a map, value of the wrong
\* category, non-scalar leaf), overrideOpts returns an error, the output
\* file keeps its previous content or absence and the base file is
\* unchanged, even when earlier pairs were valid; on success the base file
\* is unchanged too.
C9_FailedPairWritesNothing ==
    /\ confFile = confFile0
    /\ ovErr \in PairErrs => overridesFile = overridesFile0
    /\ ( confFile0.t = "object"
          /\ \E k \in 1..Len(GivenPairs) : FailsOnBase(GivenPairs[k]) )
       => /\ overridesFile = overridesFile0
          /\ ovErr # "nil"
          /\ ovPc = "done" => ovErr \notin { "running", "readErr", "writeErr" }

\* C9 witness: the second pair failed after a valid first pair, over an
\* output file that already existed.
C9_Witness ==
    /\ ovPc = "done" /\ ovErr = "atoiErr" /\ optIdx = 2
    /\ conf # Unmarshal(confFile0)
    /\ overridesFile0 # Absent /\ overridesFile = overridesFile0

\* C10: on success the written tree has exactly the key paths of the base
\* tree, every path has the type-category it has in the base tree, and
\* only the leaves named by the overrides may differ in value.
C10_ShapePreserved ==
    ( ovPc = "done" /\ ovErr = "nil" ) =>
        /\ overridesFile.t = "object"
        /\ KeyPaths(overridesFile) = KeyPaths(confFile0)
        /\ \A q \in KeyPaths(confFile0) :
              /\ Category(At(overridesFile, q)) = Category(At(confFile0, q))
              /\ ( At(confFile0, q).t # "object" /\ q \notin NamedPaths )
                    => SameValue(At(overridesFile, q), At(confFile0, q))

\* C10 witness: two overrides succeeded, one of them on a nested number,
\* and the written tree differs from the base tree.
C10_Witness ==
    /\ ovPc = "done" /\ ovErr = "nil" /\ Len(opts) = 2
    /\ << K("m"), K("n") >> \in NamedPaths
    /\ At(overridesFile, << K("m"), K("n") >>).v
          # At(confFile0, << K("m"), K("n") >>).v

\* the key path that a pair names
PathOf(pair) == Split(Split(pair, "=")[1], ".")

\* every pair of the list names an existing scalar leaf of the base
\* configuration and gives a value valid for the category of that leaf
AllValidOnBase ==
    /\ confFile0.t = "object"
    /\ \A k \in 1..Len(GivenPairs) : ~FailsOnBase(GivenPairs[k])

\* the last pair of the list that names the path
LastPairFor(path) ==
    GivenPairs[ CHOOSE k \in 1..Len(GivenPairs) :
                  /\ PathOf(GivenPairs[k]) = path
                  /\ \A j \in (k+1)..Len(GivenPairs) :
                        PathOf(GivenPairs[j]) # path ]

\* the JSON value that the pair alone coerces its leaf of the base to
CoercedLeaf(pair) ==
    At( Marshal([ t |-> "map",
                  v |-> applyOpt(Unmarshal(confFile0).v, pair).c ]),
        PathOf(pair) )

\* C11 as stated: when every pair of the list is valid for its leaf of the
\* base configuration, lists that name one leaf more than once included,
\* no pair is rejected, and the tree that is written holds at each named
\* leaf the coerced value of the last pair that names it.
C11_LastPairWins ==
    AllValidOnBase =>
        /\ ovErr \notin PairErrs
        /\ ( ovPc = "done" /\ ovErr = "nil" ) =>
              \A q \in NamedPaths :
                 SameValue(At(overridesFile, q), CoercedLeaf(LastPairFor(q)))

\* a number leaf of the base configuration is named by two pairs of the list
NumberLeafNamedTwice ==
    \E j, k \in 1..Len(GivenPairs) :
        /\ j < k
        /\ PathOf(GivenPairs[j]) = PathOf(GivenPairs[k])
        /\ At(confFile0, PathOf(GivenPairs[j])).t = "number"

\* what holds in place of C11: the statement holds of every list that names
\* no number leaf twice, and a list of valid pairs that does is rejected at
\* the second of them, with the error for values that must be edited
\* manually, and nothing is written.
C11_HoldsUnlessNumberRepeated ==
    /\ ( AllValidOnBase /\ ~NumberLeafNamedTwice ) =>
          /\ ovErr \notin PairErrs
          /\ ( ovPc = "done" /\ ovErr = "nil" ) =>
                \A q \in NamedPaths :
                   SameValue(At(overridesFile, q),
                             CoercedLeaf(LastPairFor(q)))
    /\ ( AllValidOnBase /\ NumberLeafNamedTwice /\ ovPc = "done" ) =>
          /\ ovErr = "editManually"
          /\ overridesFile = overridesFile0

\* C11 witness: a list of two valid pairs for the nested number leaf m.n
\* was rejected at its second pair, after the first pair was applied.
C11_Witness ==
    /\ AllValidOnBase /\ ovPc = "done" /\ ovErr = "editManually"
    /\ Len(GivenPairs) = 2 /\ optIdx = 2
    /\ NamedPaths = { << K("m"), K("n") >> }
    /\ conf.v[K("m")].v[K("n")] = [ t |-> "int", v |-> -3 ]

(***************************************************************************)
(* The readiness loop of `up --detach` (lines 298-351) and the goroutine   *)
(* that waits for the child (lines 299-303).                               *)
(***************************************************************************)
\* the loop bound of line 309
MaxAttempts == 300

\* PIDs that os.StartProcess may give the child
Pids == { 7, 12 }

\* errors of http.Get: nothing listens yet, or the connection is reset
ConnErrs == { "connRefused", "connReset" }

\* bodies that whatever listens on the port may send for GET /pid
Bodies ==
    { << "7" >>, << "7","\n" >>, << "1","2" >>, << " ","1","2","\n" >>,
      << "0","7" >>, << "-","7" >>, << "x" >>, << >> }

\* what one http.Get returns (line 328)
GetOutcomes ==
    { [ ok |-> FALSE, err |-> e, body |-> << >> ] : e \in ConnErrs } \cup
    { [ ok |-> TRUE, err |-> "nil", body |-> b ] : b \in Bodies }

\* what proc.Wait() may return as its error (line 301)
WaitErrs == { "nil", "waitFailed" }

\* the state after line 305: the child is started, the goroutine is spawned
UpInit ==
    /\ upPc = "select" /\ i = 0 /\ pingErr = "nil"
    /\ upErr = "running" /\ upErrArg = ArgText("nil")
    /\ procPid \in Pids
    /\ child = "running" /\ watcher = "waiting" /\ diedVal = "nil"
    /\ gets = 0 /\ lastGet = NoGet /\ connFails = 0 /\ recvd = 0
    /\ probeErr = "nil"

\* the child process exits; proc.Wait() will return diedVal
ChildExit ==
    /\ UNCHANGED << ovVars, downVars, clVars, envVars, argVars >>
    /\ UNCHANGED probeErr
    /\ child = "running"
    /\ child' = "exited"
    /\ diedVal' \in WaitErrs
    /\ UNCHANGED << upPc, i, pingErr, upErr, upErrArg, procPid, watcher,
                    gets, lastGet, connFails, recvd >>

\* line 301: proc.Wait() returns in the goroutine once the child has exited;
\* from here on the handle proc is marked done
WatcherWaitReturns ==
    /\ UNCHANGED << ovVars, downVars, clVars, envVars, argVars >>
    /\ UNCHANGED probeErr
    /\ watcher = "waiting" /\ child = "exited"
    /\ watcher' = "returned"
    /\ UNCHANGED << upPc, i, pingErr, upErr, upErrArg, procPid, child,
                    diedVal, gets, lastGet, connFails, recvd >>

\* line 302: the goroutine blocks in the send on the unbuffered channel
\* until the loop receives
WatcherSend ==
    /\ UNCHANGED << ovVars, downVars, clVars, envVars, argVars >>
    /\ UNCHANGED probeErr
    /\ watcher = "returned"
    /\ watcher' = "sending"
    /\ UNCHANGED << upPc, i, pingErr, upErr, upErrArg, procPid, child,
                    diedVal, gets, lastGet, connFails, recvd >>

\* UpSelectDied ignoring the value it received: the loop goes on to the GET
UpSelectDiedIgnored ==
    /\ UNCHANGED << ovVars, downVars, clVars, envVars, argVars >>
    /\ UNCHANGED probeErr
    /\ upPc = "select" /\ i < MaxAttempts
    /\ watcher = "sending"
    /\ watcher' = "done" /\ recvd' = recvd + 1
    /\ upPc' = "get"
    /\ UNCHANGED << i, pingErr, upErr, upErrArg, procPid, child, diedVal,
                    gets, lastGet, connFails >>

\* lines 311-316: a sender is blocked on died, so the select receives and up
\* returns the wait error, or the not-running error when it is nil
UpSelectDied ==
    /\ UNCHANGED << ovVars, downVars, clVars, envVars, argVars >>
    /\ UNCHANGED probeErr
    /\ upPc = "select" /\ i < MaxAttempts
    /\ watcher = "sending"
    /\ watcher' = "done" /\ recvd' = recvd + 1
    /\ upErr' = IF diedVal # "nil" THEN diedVal ELSE "notRunning"
    /\ upErrArg' = IF diedVal # "nil" THEN ArgText("nil") ELSE ArgPid(procPid)
    /\ upPc' = "done"
    /\ UNCHANGED << i, pingErr, procPid, child, diedVal, gets, lastGet,
                    connFails >>

\* what proc.Signal(0) returns (line 321): nil while the child runs and
\* while it has exited but proc.Wait has not returned; once the goroutine's
\* proc.Wait has returned, the handle is marked done and Signal returns the
\* error "os: process already finished"
ProbeResult == IF watcher = "waiting" THEN "nil" ELSE "finished"

\* UpSelectDefault returning the not-running error when its probe fails
UpSelectDefaultActsOnProbe ==
    /\ UNCHANGED << ovVars, downVars, clVars, envVars, argVars >>
    /\ probeErr' = ProbeResult
    /\ upPc = "select" /\ i < MaxAttempts
    /\ watcher # "sending"
    /\ IF ProbeResult # "nil"
       THEN /\ upPc' = "done" /\ upErr' = "notRunning"
            /\ upErrArg' = ArgPid(procPid)
       ELSE upPc' = "get" /\ UNCHANGED << upErr, upErrArg >>
    /\ UNCHANGED << i, pingErr, procPid, child, watcher, diedVal, gets,
                    lastGet, connFails, recvd >>

\* lines 317-324: no sender is ready, so the select takes its default; the
\* result of the zero-signal probe of line 321 is not used
UpSelectDefault ==
    /\ UNCHANGED << ovVars, downVars, clVars, envVars, argVars >>
    /\ probeErr' = ProbeResult
    /\ upPc = "select" /\ i < MaxAttempts
    /\ watcher # "sending"
    /\ upPc' = "get"
    /\ UNCHANGED << i, pingErr, upErr, upErrArg, procPid, child, watcher,
                    diedVal, gets, lastGet, connFails, recvd >>

\* AfterGet accepting any PID that parses, without the comparison of line 343
AfterGetAnyPid(r) ==
    IF ~r.ok
    THEN [ pc |-> "select", i |-> i + 1, pingErr |-> r.err,
           err |-> upErr, arg |-> upErrArg ]
    ELSE IF ~AtoiOk(TrimSpace(r.body))
    THEN [ pc |-> "done", i |-> i, pingErr |-> pingErr,
           err |-> "notAnInt", arg |-> ArgText("atoiErr") ]
    ELSE [ pc |-> "done", i |-> i, pingErr |-> pingErr,
           err |-> "nil", arg |-> ArgText("nil") ]

\* AfterGet retrying after a mismatched PID as after a connection failure
AfterGetRetriesMismatch(r) ==
    IF ~r.ok
    THEN [ pc |-> "select", i |-> i + 1, pingErr |-> r.err,
           err |-> upErr, arg |-> upErrArg ]
    ELSE IF ~AtoiOk(TrimSpace(r.body))
    THEN [ pc |-> "done", i |-> i, pingErr |-> pingErr,
           err |-> "notAnInt", arg |-> ArgText("atoiErr") ]
    ELSE IF AtoiVal(TrimSpace(r.body)) = procPid
    THEN [ pc |-> "done", i |-> i, pingErr |-> pingErr,
           err |-> "nil", arg |-> ArgText("nil") ]
    ELSE [ pc |-> "select", i |-> i + 1, pingErr |-> pingErr,
           err |-> upErr, arg |-> upErrArg ]

\* AfterGet recording only the first connection error in pingErr
AfterGetKeepsFirstErr(r) ==
    IF ~r.ok
    THEN [ pc |-> "select", i |-> i + 1,
           pingErr |-> IF pingErr = "nil" THEN r.err ELSE pingErr,
           err |-> upErr, arg |-> upErrArg ]
    ELSE IF ~AtoiOk(TrimSpace(r.body))
    THEN [ pc |-> "done", i |-> i, pingErr |-> pingErr,
           err |-> "notAnInt", arg |-> ArgText("atoiErr") ]
    ELSE IF AtoiVal(TrimSpace(r.body)) = procPid
    THEN [ pc |-> "done", i |-> i, pingErr |-> pingErr,
           err |-> "nil", arg |-> ArgText("nil") ]
    ELSE [ pc |-> "done", i |-> i, pingErr |-> pingErr,
           err |-> "pidMismatch",
           arg |-> ArgPid(AtoiVal(TrimSpace(r.body))) ]

\* what lines 329-348 do with the outcome r of the GET: [pc, i, pingErr, err, arg]
AfterGet(r) ==
    IF ~r.ok
    THEN [ pc |-> "select", i |-> i + 1, pingErr |-> r.err,
           err |-> upErr, arg |-> upErrArg ]
    ELSE IF ~AtoiOk(TrimSpace(r.body))
    THEN [ pc |-> "done", i |-> i, pingErr |-> pingErr,
           err |-> "notAnInt", arg |-> ArgText("atoiErr") ]
    ELSE IF AtoiVal(TrimSpace(r.body)) = procPid
    THEN [ pc |-> "done", i |-> i, pingErr |-> pingErr,
           err |-> "nil", arg |-> ArgText("nil") ]
    ELSE [ pc |-> "done", i |-> i, pingErr |-> pingErr,
           err |-> "pidMismatch",
           arg |-> ArgPid(AtoiVal(TrimSpace(r.body))) ]

\* lines 326-348: GET /pid; a connection failure sleeps and continues, any
\* response ends the loop
UpGet ==
    /\ UNCHANGED << ovVars, downVars, clVars, envVars, argVars >>
    /\ UNCHANGED probeErr
    /\ upPc = "get"
    /\ \E r \in GetOutcomes :
         /\ gets' = gets + 1
         /\ lastGet' = [ attempt |-> i, out |-> r ]
         /\ connFails' = IF r.ok THEN connFails ELSE connFails + 1
         /\ upPc' = AfterGet(r).pc
         /\ i' = AfterGet(r).i
         /\ pingErr' = AfterGet(r).pingErr
         /\ upErr' = AfterGet(r).err
         /\ upErrArg' = AfterGet(r).arg
    /\ UNCHANGED << procPid, child, watcher, diedVal, recvd >>

\* lines 328 and 337: http.Get uses the default client, which sets no
\* timeout, and ioutil.ReadAll reads to the end of the body; a listener that
\* accepts the connection and never answers, or never ends its body, leaves
\* the loop blocked in this attempt
UpGetHangs ==
    /\ UNCHANGED << ovVars, downVars, clVars, envVars, argVars >>
    /\ UNCHANGED probeErr
    /\ upPc = "get"
    /\ upPc' = "inGet"
    /\ gets' = gets + 1
    /\ UNCHANGED << i, pingErr, upErr, upErrArg, procPid, child, watcher,
                    diedVal, lastGet, connFails, recvd >>

\* line 351: the loop ran out; the error carries pingErr
UpTimeout ==
    /\ UNCHANGED << ovVars, downVars, clVars, envVars, argVars >>
    /\ UNCHANGED probeErr
    /\ upPc = "select" /\ i >= MaxAttempts
    /\ upErr' = "timeout" /\ upErrArg' = ArgText(pingErr)
    /\ upPc' = "done"
    /\ UNCHANGED << i, pingErr, procPid, child, watcher, diedVal, gets,
                    lastGet, connFails, recvd >>

\* the positions of the loop of lines 309-351
UpPcs == { "select", "get", "inGet", "done" }

\* a step of the function up itself: UpSelectDied, UpSelectDefault, UpGet,
\* UpGetHangs and UpTimeout are the steps that move upPc, and one of them
\* can be taken wherever upPc is "select" or "get"
LoopStep == upPc \in { "select", "get" } /\ upPc' \in UpPcs \ { upPc }

NextUp ==
    \/ ChildExit \/ WatcherWaitReturns \/ WatcherSend
    \/ UpSelectDied \/ UpSelectDefault \/ UpGet \/ UpGetHangs \/ UpTimeout

InitUp == UpInit /\ OvIdle /\ DownIdle /\ ClIdle /\ EnvIdle /\ ArgIdle

SpecUp == InitUp /\ [][NextUp]_vars

\* the loop runs in the command's main goroutine, which the scheduler keeps
\* running, and its sleep of line 331 ends: a step of the loop that can be
\* taken is taken.  Nothing is assumed of the child, of the goroutine that
\* waits for it, or of what listens on the port.  Every step of the loop
\* changes upPc.
SpecUpFair == SpecUp /\ WF_upPc(LoopStep)

(***************************************************************************)
(* Properties of the readiness loop.                                       *)
(***************************************************************************)
\* the last GET got a response whose body parses to an integer
LastGetParsed ==
    lastGet.out.ok /\ AtoiOk(TrimSpace(lastGet.out.body))

\* the PID the last response reported
LastGetPid == AtoiVal(TrimSpace(lastGet.out.body))

\* up returned in the attempt of the last GET, and no GET was issued after it
ReturnedInLastGetAttempt ==
    upPc = "done" /\ i = lastGet.attempt /\ gets = lastGet.attempt + 1

\* C1: the readiness loop returns success only in an attempt whose GET /pid
\* succeeded with a body that parses to exactly the PID of the child it
\* started, and in such an attempt it returns success at once, with no
\* further attempt.
C1_ReadyOnlyOnOwnPid ==
    /\ upErr = "nil" => ( LastGetParsed /\ LastGetPid = procPid )
    /\ ( LastGetParsed /\ LastGetPid = procPid )
          => ( upErr = "nil" /\ ReturnedInLastGetAttempt )

\* C1 witness: success in a later attempt, on a body with surrounding
\* white space, after connection failures.
C1_Witness ==
    /\ upPc = "done" /\ upErr = "nil" /\ i = 2 /\ procPid = 12
    /\ lastGet.out.body = << " ","1","2","\n" >>

\* C2: a response that reports another PID than the child's makes the loop
\* return the mismatch error in that same attempt, with no further GET,
\* however many attempts remain.
C2_MismatchIsFinal ==
    ( LastGetParsed /\ LastGetPid # procPid )
      => /\ upErr = "pidMismatch" /\ upErrArg = ArgPid(LastGetPid)
         /\ ReturnedInLastGetAttempt

\* C2 witness: a mismatch in the first attempt, with 299 attempts left.
C2_Witness ==
    /\ upPc = "done" /\ upErr = "pidMismatch" /\ i = 0 /\ gets = 1
    /\ procPid = 7 /\ upErrArg = ArgPid(12)

\* C3: the loop returns the timeout error exactly when all 300 attempts
\* ended in a connection failure and no child exit was received at the
\* start of any attempt; the error then carries the connection error of the
\* last attempt.
C3_TimeoutExactly ==
    /\ upErr = "timeout"
          <=> ( upPc = "done" /\ connFails = MaxAttempts /\ recvd = 0 )
    /\ upErr = "timeout"
          => /\ gets = MaxAttempts
             /\ lastGet.attempt = MaxAttempts - 1
             /\ ~lastGet.out.ok
             /\ upErrArg = ArgText(lastGet.out.err)

\* C3 witness: a timeout whose last attempt was reset, not refused, while
\* the child had exited without the loop noticing.
C3_Witness ==
    /\ upErr = "timeout" /\ upErrArg = ArgText("connReset") /\ child = "exited"

\* C4: at the start of every attempt, if the goroutine has reported the
\* exit of the child, the loop returns in that attempt, without a GET, the
\* wait error if it is non-nil and the not-running error otherwise; success
\* is never returned after the exit was received.
C4_DeathSeenAtAttemptStart ==
    /\ [][ ( upPc = "select" /\ i < MaxAttempts /\ watcher = "sending" )
            => /\ upPc' = "done"
               /\ upErr' = IF diedVal # "nil" THEN diedVal ELSE "notRunning"
               /\ gets' = gets ]_vars
    /\ []( upErr = "nil" => recvd = 0 )

\* C4 witness: the exit of the child with a nil wait error was received at
\* the start of a later attempt.
C4_Witness ==
    /\ upPc = "done" /\ upErr = "notRunning"
    /\ upErrArg = ArgPid(procPid)
    /\ i = 3 /\ gets = 3 /\ recvd = 1

\* the goroutine never steps back: one proc.Wait, then one send
WatcherOrder ==
    [][ /\ watcher = "returned" => watcher' \in { "returned", "sending" }
        /\ watcher = "sending" => watcher' \in { "sending", "done" }
        /\ watcher = "done" => watcher' = "done" ]_vars

\* the send on died completes exactly when the loop receives, at most once
OneSendOneReceive ==
    [] ( recvd <= 1 /\ ( recvd = 1 <=> watcher = "done" ) )

\* once the loop has decided its result nothing is received and the result
\* stands; a goroutine that reaches its send later stays blocked in it
NoReceiveAfterDecision ==
    [][ upPc = "done"
          => ( upPc' = "done" /\ recvd' = recvd /\ upErr' = upErr
               /\ ( watcher # "done" => watcher' # "done" ) ) ]_vars

\* the death channel aside, nothing the loop reads is changed by the
\* goroutine: the answer of the handle proc to the probe of line 321 stays
\* what it is
NoOtherSharedState == [][ ProbeResult' = ProbeResult ]_vars

\* the loop takes the default of its select to the GET whatever its probe
\* of the handle returned
ProbeResultUnused ==
    [][ probeErr' # probeErr
          => ( upPc' = "get" /\ upErr' = upErr /\ upErrArg' = upErrArg
               /\ i' = i ) ]_vars

\* C17 as stated: in every interleaving of the goroutine and the loop the
\* death channel is written at most once and read at most once, the two
\* share no other mutable state, and no value sent on the channel is
\* received after the loop has decided its result.
C17_ChannelIsAllTheyShare ==
    /\ WatcherOrder /\ OneSendOneReceive /\ NoReceiveAfterDecision
    /\ NoOtherSharedState

\* C17, amended: the channel is written at most once and read at most once,
\* and never after the loop has decided its result; the goroutine and the
\* loop also share the handle proc, whose answer to the loop's probe changes
\* when the goroutine's proc.Wait returns, and the loop does not use that
\* answer.
C17_ChannelAndUnusedHandle ==
    /\ WatcherOrder /\ OneSendOneReceive /\ NoReceiveAfterDecision
    /\ ProbeResultUnused
    /\ [] ( probeErr = "finished" => watcher # "waiting" )

\* C17 witness: the loop's probe found the handle done, because the
\* goroutine's proc.Wait had returned, before anything was sent on the
\* channel; the loop then decided success and the goroutine is left in its
\* send.
C17_Witness ==
    /\ probeErr = "finished" /\ recvd = 0 /\ watcher = "sending"
    /\ upPc = "done" /\ upErr = "nil"

\* C18 as stated: every run of the loop eventually returns, after at most
\* 300 GETs, whatever the listener on the port does.
C18_AlwaysReturns == <>( upPc = "done" ) /\ []( gets <= MaxAttempts )

\* C18 witness: the loop is blocked in its first GET while the goroutine
\* waits in its send to report that the child is dead.
C18_Witness ==
    /\ upPc = "inGet" /\ i = 0 /\ gets = 1 /\ upErr = "running"
    /\ child = "exited" /\ watcher = "sending" /\ recvd = 0

\* every run of the loop returns or ends blocked in a GET, none issues more
\* than 300 GETs, and each attempt after the first follows a connection
\* failure, the only case in which the loop sleeps
C18_ReturnsUnlessAGetHangs ==
    /\ <>( upPc \in { "done", "inGet" } )
    /\ []( gets <= MaxAttempts /\ i = connFails )

(***************************************************************************)
(* down, from the point where the PID of worker.pid is known (lines        *)
(* 383-404).  os.FindProcess returns a handle or, with an error, none.     *)
(***************************************************************************)
\* the loop bound of line 394
MaxProbes == 300

\* the state after line 383: the recorded process may be gone already, and
\* the caller may lack the right to signal it
DownInit ==
    /\ downPc = "lookup" /\ probeIdx = 0 /\ downErr = "running"
    /\ target \in { "alive", "dead" }
    /\ maySignal \in BOOLEAN
    /\ sigints = 0 /\ probes = 0 /\ probeFails = 0

\* p.Signal(sig) returns an error when the process is gone or the caller may
\* not signal it
SignalFails == target = "dead" \/ ~maySignal

\* the target exits: because of the interrupt, or on its own
TargetExit ==
    /\ UNCHANGED << ovVars, upVars, clVars, envVars, argVars >>
    /\ target = "alive"
    /\ target' = "dead"
    /\ UNCHANGED << downPc, probeIdx, downErr, maySignal, sigints, probes,
                    probeFails >>

\* what os.FindProcess(pid) returns: a handle and no error, or an error and
\* no handle
LookupOutcomes == { "handle", "error" }

\* lines 384-388: look the process up; an error is printed and down goes on
\* to line 389 with p = nil
DownLookup ==
    /\ UNCHANGED << ovVars, upVars, clVars, envVars, argVars >>
    /\ downPc = "lookup"
    /\ \E found \in LookupOutcomes :
         downPc' = IF found = "handle" THEN "signal" ELSE "signalNil"
    /\ UNCHANGED << probeIdx, downErr, target, maySignal, sigints, probes,
                    probeFails >>

\* line 389 with p = nil: p.Signal reads a field of the handle through the
\* nil pointer, and the process ends in a run-time panic; no signal is
\* sent, the loop of line 394 is not reached and down returns nothing
DownSignalNil ==
    /\ UNCHANGED << ovVars, upVars, clVars, envVars, argVars >>
    /\ downPc = "signalNil"
    /\ downPc' = "panicked"
    /\ UNCHANGED << probeIdx, downErr, target, maySignal, sigints, probes,
                    probeFails >>

\* lines 389-392: the interrupt is sent; a failure is printed only
DownSignal ==
    /\ UNCHANGED << ovVars, upVars, clVars, envVars, argVars >>
    /\ downPc = "signal"
    /\ sigints' = sigints + 1
    /\ downPc' = "probe"
    /\ UNCHANGED << probeIdx, downErr, target, maySignal, probes,
                    probeFails >>

\* DownProbe sending the interrupt again whenever the process is still there
DownProbeResends ==
    /\ UNCHANGED << ovVars, upVars, clVars, envVars, argVars >>
    /\ downPc = "probe" /\ probeIdx < MaxProbes
    /\ probes' = probes + 1
    /\ IF SignalFails
       THEN /\ probeFails' = probeFails + 1
            /\ downErr' = "nil" /\ downPc' = "done"
            /\ UNCHANGED << probeIdx, sigints >>
       ELSE /\ probeIdx' = probeIdx + 1
            /\ sigints' = sigints + 1
            /\ UNCHANGED << probeFails, downErr, downPc >>
    /\ UNCHANGED << target, maySignal >>

\* lines 394-401: one zero-signal probe; an error means the process stopped,
\* otherwise sleep and probe again
DownProbe ==
    /\ UNCHANGED << ovVars, upVars, clVars, envVars, argVars >>
    /\ downPc = "probe" /\ probeIdx < MaxProbes
    /\ probes' = probes + 1
    /\ IF SignalFails
       THEN /\ probeFails' = probeFails + 1
            /\ downErr' = "nil" /\ downPc' = "done"
            /\ UNCHANGED probeIdx
       ELSE /\ probeIdx' = probeIdx + 1
            /\ UNCHANGED << probeFails, downErr, downPc >>
    /\ UNCHANGED << target, maySignal, sigints >>

\* line 403: the loop ran out
DownTimeout ==
    /\ UNCHANGED << ovVars, upVars, clVars, envVars, argVars >>
    /\ downPc = "probe" /\ probeIdx >= MaxProbes
    /\ downErr' = "timeout" /\ downPc' = "done"
    /\ UNCHANGED << probeIdx, target, maySignal, sigints, probes,
                    probeFails >>

NextDown ==
    \/ TargetExit \/ DownLookup \/ DownSignalNil
    \/ DownSignal \/ DownProbe \/ DownTimeout

InitDown ==
    DownInit /\ OvIdle /\ UpIdle /\ ClIdle /\ EnvIdle /\ ArgIdle

SpecDown == InitDown /\ [][NextDown]_vars

\* C5: down sends the interrupt once and never again; it returns success at
\* the first zero-signal probe that fails, of at most 300, and returns the
\* timeout error exactly when all 300 probes found the process alive.
C5_OneInterruptThenProbe ==
    /\ sigints <= 1
    /\ downPc \in { "probe", "done" } => sigints = 1
    /\ probes <= MaxProbes
    /\ probeFails >= 1
          => ( downPc = "done" /\ downErr = "nil" /\ probeFails = 1 )
    /\ downErr = "nil" => ( probeFails = 1 /\ probes = probeIdx + 1 )
    /\ downErr = "timeout"
          <=> ( downPc = "done" /\ probes = MaxProbes /\ probeFails = 0 )

\* C5 witness: the process ignored the interrupt for all 300 probes.
C5_Witness ==
    /\ downPc = "done" /\ downErr = "timeout" /\ target = "alive"
    /\ sigints = 1 /\ probes = MaxProbes

C15_OnlyWithAHandle ==
    /\ downPc \in { "signal", "probe", "done" } => downPc # "panicked"
    /\ downPc = "done" => ( sigints = 1 /\ downErr \in { "nil", "timeout" } )
    /\ downPc \in { "signalNil", "panicked" } =>
          ( sigints = 0 /\ probes = 0 /\ downErr = "running" )

(***************************************************************************)
(* cleanup (force-cleanup), from line 413.  fs holds what it works on:     *)
(*   cgRoot     whether /sys/fs/cgroup/<base>-sandboxes exists             *)
(*   killFile   whether the kernel offers cgroup.kill in it                *)
(*   cg         each child cgroup: "absent", "empty" or "busy" (it still   *)
(*              holds processes or cgroups, so rmdir gives EBUSY)          *)
(*   mntRoot    whether <olPath>/worker/root-sandboxes exists              *)
(*   mntLayers  the mounts stacked on root-sandboxes itself                *)
(*   entries    each entry of root-sandboxes: NoEntry, or the mounts       *)
(*              stacked on it and whether the directory beneath is empty   *)
(*   pidFile    whether <olPath>/worker/worker.pid exists                  *)
(***************************************************************************)
CgPrefix == << "c","g","-" >>
Cg1 == << "c","g","-","1" >>
Cg2 == << "c","g","-","2" >>
CgKill == << "c","g","r","o","u","p",".","k","i","l","l" >>
CgOther == << "c","g","x" >>

\* the child cgroups that may be left: two of the sandboxes' and a foreign one
CgNames == { Cg1, Cg2, CgOther }

\* the names a listing of the cgroup root may hold, in ioutil.ReadDir's
\* order (sorted by file name)
CgDirOrder == << Cg1, Cg2, CgKill, CgOther >>

Sb1 == << "s","b","1" >>
Sb2 == << "s","b","2" >>
EntryNames == { Sb1, Sb2 }
EntryOrder == << Sb1, Sb2 >>

NoEntry == [ layers |-> -1, empty |-> TRUE ]
EntryStates ==
    { NoEntry } \cup [ layers : 0..MaxLayers, empty : BOOLEAN ]

\* the leftover states cleanup may be run on
FsStates ==
    { f \in [ cgRoot : BOOLEAN, killFile : BOOLEAN,
              cg : [ CgNames -> { "absent", "empty", "busy" } ],
              mntRoot : BOOLEAN, mntLayers : 0..MaxLayers,
              entries : [ EntryNames -> EntryStates ],
              pidFile : BOOLEAN ] :
        /\ f.cg[CgOther] # "busy"
        /\ ~f.cgRoot => ( ~f.killFile /\ \A n \in CgNames : f.cg[n] = "absent" )
        /\ ~f.mntRoot => ( f.mntLayers = 0
                           /\ \A n \in EntryNames : f.entries[n] = NoEntry ) }

\* ioutil.ReadDir(cgRoot) (line 416)
CgListing(f) ==
    SelectSeq(CgDirOrder,
              LAMBDA n : IF n = CgKill THEN f.killFile ELSE f.cg[n] # "absent")

\* ioutil.ReadDir(dirName) (line 442)
MntListing(f) == SelectSeq(EntryOrder, LAMBDA n : f.entries[n] # NoEntry)

Logged(step, name, ok) == [ step |-> step, target |-> name, ok |-> ok ]

ClInit ==
    /\ clPc = "listCg" /\ clFiles = << >> /\ clIdx = 0 /\ clErr = "running"
    /\ fs \in FsStates
    /\ privileged \in BOOLEAN
    /\ clLog = << >> /\ run = 1
    /\ fs0 = fs /\ fs1 = fs /\ clLog1 = << >>

\* lines 413-418: list the cgroup root; a failure skips to the mounts
ClListCg ==
    /\ UNCHANGED << ovVars, upVars, downVars, envVars, argVars >>
    /\ clPc = "listCg"
    /\ clLog' = Append(clLog, Logged("listCg", << >>, fs.cgRoot))
    /\ IF fs.cgRoot
       THEN /\ clFiles' = CgListing(fs) /\ clIdx' = 1 /\ clPc' = "kill"
       ELSE /\ clPc' = "listMnt" /\ UNCHANGED << clFiles, clIdx >>
    /\ UNCHANGED << clErr, fs, privileged, run, fs0, fs1, clLog1 >>

\* the child cgroups after a write to cgroup.kill: the processes of a busy
\* one are killed, and it may or may not be empty by the time of the rmdir
AfterKill(cg) ==
    { g \in [ CgNames -> { "absent", "empty", "busy" } ] :
        \A n \in CgNames :
            g[n] = cg[n] \/ ( cg[n] = "busy" /\ g[n] = "empty" ) }

\* lines 419-422: write 1 to cgroup.kill; a failure is printed only
ClKill ==
    /\ UNCHANGED << ovVars, upVars, downVars, envVars, argVars >>
    /\ clPc = "kill"
    /\ LET ok == privileged /\ fs.killFile IN
         /\ clLog' = Append(clLog, Logged("kill", << >>, ok))
         /\ IF ok
            THEN \E g \in AfterKill(fs.cg) : fs' = [ fs EXCEPT !.cg = g ]
            ELSE UNCHANGED fs
    /\ clPc' = "cgLoop"
    /\ UNCHANGED << clFiles, clIdx, clErr, privileged, run, fs0, fs1, clLog1 >>

\* ClCgFile giving up the cgroup phase at the first child it cannot remove
ClCgFileStopsOnFailure ==
    /\ UNCHANGED << ovVars, upVars, downVars, envVars, argVars >>
    /\ clPc = "cgLoop" /\ clIdx <= Len(clFiles)
    /\ LET name == clFiles[clIdx]
           ok == privileged /\ fs.cg[name] = "empty" IN
         IF HasPrefix(name, CgPrefix)
         THEN /\ clLog' = Append(clLog, Logged("rmdirCg", name, ok))
              /\ fs' = IF ok THEN [ fs EXCEPT !.cg[name] = "absent" ] ELSE fs
              /\ clPc' = IF ok THEN clPc ELSE "listMnt"
         ELSE UNCHANGED << clLog, fs, clPc >>
    /\ clIdx' = clIdx + 1
    /\ UNCHANGED << clFiles, clErr, privileged, run, fs0, fs1, clLog1 >>

\* lines 424-432: one file of the listing; a cg- child is removed if it can be
ClCgFile ==
    /\ UNCHANGED << ovVars, upVars, downVars, envVars, argVars >>
    /\ clPc = "cgLoop" /\ clIdx <= Len(clFiles)
    /\ LET name == clFiles[clIdx]
           ok == privileged /\ fs.cg[name] = "empty" IN
         IF HasPrefix(name, CgPrefix)
         THEN /\ clLog' = Append(clLog, Logged("rmdirCg", name, ok))
              /\ fs' = IF ok THEN [ fs EXCEPT !.cg[name] = "absent" ] ELSE fs
         ELSE UNCHANGED << clLog, fs >>
    /\ clIdx' = clIdx + 1
    /\ UNCHANGED << clPc, clFiles, clErr, privileged, run, fs0, fs1, clLog1 >>

\* lines 434-436: remove the cgroup root, which must have no child left
ClRmRoot ==
    /\ UNCHANGED << ovVars, upVars, downVars, envVars, argVars >>
    /\ clPc = "cgLoop" /\ clIdx > Len(clFiles)
    /\ LET ok == privileged /\ \A n \in CgNames : fs.cg[n] = "absent" IN
         /\ clLog' = Append(clLog, Logged("rmdirCgRoot", << >>, ok))
         /\ fs' = IF ok THEN [ fs EXCEPT !.cgRoot = FALSE, !.killFile = FALSE ]
                  ELSE fs
    /\ clPc' = "listMnt"
    /\ UNCHANGED << clFiles, clIdx, clErr, privileged, run, fs0, fs1, clLog1 >>

\* ClListMnt returning the error of a failed listing instead of printing it
ClListMntReturnsErr ==
    /\ UNCHANGED << ovVars, upVars, downVars, envVars, argVars >>
    /\ clPc = "listMnt"
    /\ LET ok == fs.mntRoot /\ privileged IN
         /\ clLog' = Append(clLog, Logged("listMnt", << >>, ok))
         /\ IF ok
            THEN /\ clFiles' = MntListing(fs) /\ clIdx' = 1 /\ clPc' = "mntLoop"
                 /\ UNCHANGED clErr
            ELSE /\ clPc' = "done" /\ clErr' = "readDirErr"
                 /\ UNCHANGED << clFiles, clIdx >>
    /\ UNCHANGED << fs, privileged, run, fs0, fs1, clLog1 >>

\* lines 439-444: list root-sandboxes, which lies in the owner-only olPath
ClListMnt ==
    /\ UNCHANGED << ovVars, upVars, downVars, envVars, argVars >>
    /\ clPc = "listMnt"
    /\ LET ok == fs.mntRoot /\ privileged IN
         /\ clLog' = Append(clLog, Logged("listMnt", << >>, ok))
         /\ IF ok
            THEN /\ clFiles' = MntListing(fs) /\ clIdx' = 1 /\ clPc' = "mntLoop"
            ELSE /\ clPc' = "umountParent" /\ UNCHANGED << clFiles, clIdx >>
    /\ UNCHANGED << clErr, fs, privileged, run, fs0, fs1, clLog1 >>

\* syscall.Unmount(path, MNT_DETACH) of an entry: takes the top mount off
Unmounted(e) ==
    IF privileged /\ e.layers > 0 THEN [ e EXCEPT !.layers = e.layers - 1 ]
    ELSE e

\* syscall.Rmdir(path) succeeds on an empty directory that is no mount point
CanRmdir(e) == privileged /\ e.layers = 0 /\ e.empty

\* ClMntEntry stepping over the entry that follows the one it handled
ClMntEntrySkipsNext ==
    /\ UNCHANGED << ovVars, upVars, downVars, envVars, argVars >>
    /\ clPc = "mntLoop" /\ clIdx <= Len(clFiles)
    /\ LET name == clFiles[clIdx]
           e == fs.entries[name]
           u == Unmounted(e) IN
         /\ clLog' = clLog \o << Logged("umount", name, u # e),
                                 Logged("rmdirMnt", name, CanRmdir(u)) >>
         /\ fs' = [ fs EXCEPT !.entries[name] =
                        IF CanRmdir(u) THEN NoEntry ELSE u ]
    /\ clIdx' = clIdx + 2
    /\ UNCHANGED << clPc, clFiles, clErr, privileged, run, fs0, fs1, clLog1 >>

\* ClMntEntry removing the directory first and detaching afterwards
ClMntEntryRemovesFirst ==
    /\ UNCHANGED << ovVars, upVars, downVars, envVars, argVars >>
    /\ clPc = "mntLoop" /\ clIdx <= Len(clFiles)
    /\ LET name == clFiles[clIdx]
           e == fs.entries[name] IN
         /\ clLog' = clLog \o << Logged("rmdirMnt", name, CanRmdir(e)),
                                 Logged("umount", name,
                                        ~CanRmdir(e) /\ Unmounted(e) # e) >>
         /\ fs' = [ fs EXCEPT !.entries[name] =
                        IF CanRmdir(e) THEN NoEntry ELSE Unmounted(e) ]
    /\ clIdx' = clIdx + 1
    /\ UNCHANGED << clPc, clFiles, clErr, privileged, run, fs0, fs1, clLog1 >>

\* lines 445-455: one entry: detach it, then remove its directory; each
\* failure is printed only
ClMntEntry ==
    /\ UNCHANGED << ovVars, upVars, downVars, envVars, argVars >>
    /\ clPc = "mntLoop" /\ clIdx <= Len(clFiles)
    /\ LET name == clFiles[clIdx]
           e == fs.entries[name]
           u == Unmounted(e) IN
         /\ clLog' = clLog \o << Logged("umount", name, u # e),
                                 Logged("rmdirMnt", name, CanRmdir(u)) >>
         /\ fs' = [ fs EXCEPT !.entries[name] =
                        IF CanRmdir(u) THEN NoEntry ELSE u ]
    /\ clIdx' = clIdx + 1
    /\ UNCHANGED << clPc, clFiles, clErr, privileged, run, fs0, fs1, clLog1 >>

\* the loop of line 445 is over
ClMntLoopEnd ==
    /\ UNCHANGED << ovVars, upVars, downVars, envVars, argVars >>
    /\ clPc = "mntLoop" /\ clIdx > Len(clFiles)
    /\ clPc' = "umountParent"
    /\ UNCHANGED << clFiles, clIdx, clErr, fs, privileged, clLog, run, fs0,
                    fs1, clLog1 >>

\* lines 458-460: detach root-sandboxes itself, listed or not
ClUmountParent ==
    /\ UNCHANGED << ovVars, upVars, downVars, envVars, argVars >>
    /\ clPc = "umountParent"
    /\ LET ok == privileged /\ fs.mntRoot /\ fs.mntLayers > 0 IN
         /\ clLog' = Append(clLog, Logged("umountParent", << >>, ok))
         /\ fs' = IF ok THEN [ fs EXCEPT !.mntLayers = fs.mntLayers - 1 ]
                  ELSE fs
    /\ clPc' = "rmPid"
    /\ UNCHANGED << clFiles, clIdx, clErr, privileged, run, fs0, fs1, clLog1 >>

\* lines 462-466: remove worker.pid and return nil
ClRmPid ==
    /\ UNCHANGED << ovVars, upVars, downVars, envVars, argVars >>
    /\ clPc = "rmPid"
    /\ LET ok == privileged /\ fs.pidFile IN
         /\ clLog' = Append(clLog, Logged("rmPid", << >>, ok))
         /\ fs' = IF ok THEN [ fs EXCEPT !.pidFile = FALSE ] ELSE fs
    /\ clErr' = "nil" /\ clPc' = "done"
    /\ fs1' = IF run = 1 THEN fs' ELSE fs1
    /\ clLog1' = IF run = 1 THEN clLog' ELSE clLog1
    /\ UNCHANGED << clFiles, clIdx, privileged, run, fs0 >>

\* force-cleanup is run a second time on what the first run left
ClRerun ==
    /\ UNCHANGED << ovVars, upVars, downVars, envVars, argVars >>
    /\ clPc = "done" /\ run = 1
    /\ run' = 2 /\ clPc' = "listCg" /\ clErr' = "running"
    /\ clLog' = << >> /\ clFiles' = << >> /\ clIdx' = 0
    /\ UNCHANGED << fs, privileged, fs0, fs1, clLog1 >>

cleanup ==
    \/ ClListCg \/ ClKill \/ ClCgFile \/ ClRmRoot
    \/ ClListMnt \/ ClMntEntry \/ ClMntLoopEnd \/ ClUmountParent \/ ClRmPid

NextCleanup == cleanup \/ ClRerun

InitCleanup ==
    ClInit /\ OvIdle /\ UpIdle /\ DownIdle /\ EnvIdle /\ ArgIdle

SpecCleanup == InitCleanup /\ [][NextCleanup]_vars

(***************************************************************************)
(* Properties of cleanup.                                                  *)
(***************************************************************************)
\* fs when the current run started
RunStart == IF run = 1 THEN fs0 ELSE fs1

\* the system calls of a log, without their results
Steps(log) == [ k \in 1..Len(log) |-> << log[k].step, log[k].target >> ]

StepOk(log, step) ==
    \E k \in 1..Len(log) : log[k].step = step /\ log[k].ok

StepTried(log, step, name) ==
    \E k \in 1..Len(log) : log[k].step = step /\ log[k].target = name

RECURSIVE CgRemovals(_)
\* one removal for every cg- file of a listing, in its order
CgRemovals(files) ==
    IF Len(files) = 0 THEN << >>
    ELSE ( IF HasPrefix(Head(files), CgPrefix)
           THEN << << "rmdirCg", Head(files) >> >> ELSE << >> )
         \o CgRemovals(Tail(files))

RECURSIVE MntRemovals(_)
\* a detach and then a removal for every entry of a listing, in its order
MntRemovals(files) ==
    IF Len(files) = 0 THEN << >>
    ELSE << << "umount", Head(files) >>, << "rmdirMnt", Head(files) >> >>
         \o MntRemovals(Tail(files))

\* the system calls a complete run makes, given only which listings succeeded
ExpectedSteps ==
    << << "listCg", << >> >> >>
    \o ( IF StepOk(clLog, "listCg")
         THEN << << "kill", << >> >> >>
              \o CgRemovals(CgListing(RunStart))
              \o << << "rmdirCgRoot", << >> >> >>
         ELSE << >> )
    \o << << "listMnt", << >> >> >>
    \o ( IF StepOk(clLog, "listMnt")
         THEN MntRemovals(MntListing(RunStart)) ELSE << >> )
    \o << << "umountParent", << >> >>, << "rmPid", << >> >> >>

\* the steps that cleanup makes once per run, whatever a listing holds
RunSteps ==
    { "listCg", "kill", "rmdirCgRoot", "listMnt", "umountParent", "rmPid" }

\* C6 as stated: cleanup returns no error, and no failure, that of a
\* listing included, keeps a later step from being attempted: a run that
\* has returned has listed the cgroup root, written the kill trigger, tried
\* to remove the cgroup root, listed root-sandboxes, tried to detach it and
\* tried to remove the PID file.
C6_Original ==
    clPc = "done" =>
        /\ clErr = "nil"
        /\ \A step \in RunSteps : StepTried(clLog, step, << >>)

\* C6 (amended): cleanup returns no error and attempts the cgroup phase,
\* then the mount phase, then the PID-file phase; no failure of a step other
\* than a listing prevents a later step, and a failed listing skips only the
\* steps of its own phase that work on the listed directory, never a later
\* phase, the detach of the parent or the removal of the PID file.
C6_EveryPhaseAttempted ==
    clPc = "done" =>
        /\ clErr = "nil"
        /\ Steps(clLog) = ExpectedSteps

\* C6 witness: a run in which the kill trigger, the removal of one cgroup
\* and a detach failed, and the steps after them were still made.
C6_Witness ==
    /\ clPc = "done" /\ run = 1
    /\ \E k \in 1..Len(clLog) : clLog[k] = Logged("kill", << >>, FALSE)
    /\ \E k \in 1..Len(clLog) : clLog[k] = Logged("rmdirCg", Cg1, FALSE)
    /\ \E k \in 1..Len(clLog) : clLog[k] = Logged("rmdirCg", Cg2, TRUE)
    /\ \E k \in 1..Len(clLog) : clLog[k] = Logged("umount", Sb1, FALSE)
    /\ \E k \in 1..Len(clLog) : clLog[k] = Logged("rmdirMnt", Sb2, TRUE)
    /\ \E k \in 1..Len(clLog) : clLog[k] = Logged("rmPid", << >>, TRUE)

\* the entry is there before the step and gone after it
Removed(n) == fs.entries[n] # NoEntry /\ fs'.entries[n] = NoEntry

\* C16: an entry of root-sandboxes goes away only in a step that first
\* detaches it and then removes its directory, and only if no mount is left
\* on it after the detach: an entry that is still mounted, because the
\* detach failed or another mount lies beneath, stays.  The detach of
\* root-sandboxes itself is attempted after the detach and the removal of
\* every listed entry, and succeeds only after those of every entry there
\* was.
C16_DetachThenRemove ==
    /\ [][ \A n \in EntryNames : Removed(n) =>
             /\ Len(clLog') = Len(clLog) + 2
             /\ clLog'[Len(clLog) + 1].step = "umount"
             /\ clLog'[Len(clLog) + 1].target = n
             /\ clLog'[Len(clLog) + 2] = Logged("rmdirMnt", n, TRUE)
             /\ Unmounted(fs.entries[n]).layers = 0 ]_vars
    /\ []( \A k \in 1..Len(clLog) : clLog[k].step = "umountParent" =>
             \A n \in EntryNames :
                ( RunStart.entries[n] # NoEntry
                  /\ ( StepOk(clLog, "listMnt") \/ clLog[k].ok ) )
                => \E j \in 1..(k-2) :
                      /\ clLog[j].step = "umount" /\ clLog[j].target = n
                      /\ clLog[j+1].step = "rmdirMnt"
                      /\ clLog[j+1].target = n )

\* C16 witness: of two entries with mounts, the one under a single mount
\* was detached and removed, the one under two mounts was detached once
\* and stayed, and after both root-sandboxes itself was detached.
C16_Witness ==
    /\ clPc = "done" /\ run = 1
    /\ fs0.entries[Sb1] = [ layers |-> 2, empty |-> TRUE ]
    /\ fs0.entries[Sb2] = [ layers |-> 1, empty |-> TRUE ]
    /\ fs.entries[Sb1] = [ layers |-> 1, empty |-> TRUE ]
    /\ fs.entries[Sb2] = NoEntry
    /\ \E k \in 1..Len(clLog) : clLog[k] = Logged("rmdirMnt", Sb1, FALSE)
    /\ \E k \in 1..Len(clLog) : clLog[k] = Logged("umountParent", << >>, TRUE)

\* the first run has returned
FirstRunReturned == run = 2 \/ clPc = "done"

\* no removal of a directory failed in the first run, and no directory that
\* existed failed to list
FirstRunClean ==
    /\ \A k \in 1..Len(clLog1) :
         clLog1[k].step \in { "rmdirCg", "rmdirCgRoot", "rmdirMnt" }
           => clLog1[k].ok
    /\ fs0.cgRoot => StepOk(clLog1, "listCg")
    /\ fs0.mntRoot => StepOk(clLog1, "listMnt")

\* the files and directories of fs, without the mounts on root-sandboxes
FilesOf(f) == [ f EXCEPT !.mntLayers = 0 ]

NothingLeft(f) ==
    /\ ~f.cgRoot
    /\ \A n \in CgNames : f.cg[n] = "absent"
    /\ \A n \in EntryNames : f.entries[n] = NoEntry

NothingToClean == run = 1 /\ ~fs0.cgRoot /\ ~fs0.mntRoot

\* C8 as stated: without a cgroup root and without root-sandboxes, cleanup
\* completes without error and leaves every file, directory and mount as it
\* was.
C8_Original ==
    NothingToClean => ( fs = fs0 /\ ( clPc = "done" => clErr = "nil" ) )

\* C8 (amended): without a cgroup root and without root-sandboxes, cleanup
\* completes without error and changes nothing, except that it removes the
\* PID file worker/worker.pid when there is one it may remove.
C8_OnlyPidFileRemoved ==
    NothingToClean =>
        /\ [ fs EXCEPT !.pidFile = fs0.pidFile ] = fs0
        /\ fs.pidFile => fs0.pidFile
        /\ clPc = "done"
             => /\ clErr = "nil"
                /\ fs.pidFile = ( fs0.pidFile /\ ~privileged )

\* C8 witness: such a run has returned, and the PID file that was there is
\* gone.
C8_Witness ==
    /\ NothingToClean /\ clPc = "done"
    /\ fs0.pidFile /\ ~fs.pidFile

(***************************************************************************)
(* A sequence of commands on one environment path olPath: new, up, down,   *)
(* status and force-cleanup, one at a time.  initOLDir is followed step by *)
(* step; each step can fail.                                               *)
(***************************************************************************)
\* the most commands run on the path
MaxCmds == 3

\* the statements of initOLDir that can return an error (lines 105-172)
InitSteps ==
    << "mkdirRoot", "loadDefaults", "saveConf", "mkdirWorker",
       "mkdirRegistry", "dockerClient", "dumpImage", "mkdirHandler",
       "mkdirHost", "mkdirPackages", "writeResolv", "mknodNull",
       "mknodRandom", "mknodUrandom" >>

\* the steps that leave a directory, file or device node on disk
LeavesArtifact(step) == step \notin { "loadDefaults", "dockerClient" }

\* the fields of common.Conf that the commands use, as keys of config.json
Worker_dir == << "W","o","r","k","e","r","_","d","i","r" >>
Worker_port == << "W","o","r","k","e","r","_","p","o","r","t" >>

\* <olPath>/worker, where cleanup looks for worker.pid (line 462)
DirWorker == << "w","o","r","k","e","r" >>
DirAlt == << "a","l","t" >>
Port5000 == << "5","0","0","0" >>
Port6000 == << "6","0","0","0" >>

\* what common.LoadDefaults and common.SaveConf put in config.json
DefaultConf ==
    JObj( Worker_dir :> JStr(DirWorker) @@ Worker_port :> JStr(Port5000) )

\* os.Mkdir(olPath) fails when the path exists; every step can fail for a
\* reason of its own (permissions, no Docker daemon, no such image, ...)
StepOutcomes(step) ==
    IF step = "mkdirRoot" /\ "mkdirRoot" \in made THEN { FALSE } ELSE BOOLEAN

\* the error initOLDir returns when the step fails: the error of that step,
\* written as the name of the step
StepErr(step) == step

EnvInit ==
    /\ made = { } /\ baseConf = Absent /\ overConf = Absent
    /\ envCmd = "none" /\ envPc = "done" /\ initIdx = 0 /\ initLog = << >>
    /\ envErr = "nil" /\ upOpts = << >> /\ upDetach = FALSE
    /\ confPath = "none" /\ Conf = EmptyMap /\ worker = NoWorker
    /\ reached = NothingReached /\ initOk = FALSE /\ cmds = 0

\* a command may start when the one before it has returned
MayStart == envPc = "done" /\ cmds < MaxCmds

\* lines 183-190: `new` calls initOLDir
NewStart ==
    /\ UNCHANGED << ovVars, upVars, downVars, clVars, argVars >>
    /\ MayStart
    /\ envCmd' = "new" /\ envPc' = "init" /\ envErr' = "running"
    /\ initIdx' = 1 /\ initLog' = << >> /\ cmds' = cmds + 1
    /\ confPath' = "none" /\ Conf' = EmptyMap
    /\ upOpts' = << >> /\ upDetach' = FALSE
    /\ UNCHANGED << made, baseConf, overConf, worker, reached, initOk >>

\* where the command goes on when initOLDir returned nil: `new` returns
\* it (line 189), `up` goes on to line 243
AfterInit == IF envCmd = "new" THEN "done" ELSE "override"

\* InitStep going on to the next step when a step has failed
InitStepContinues ==
    /\ UNCHANGED << ovVars, upVars, downVars, clVars, argVars >>
    /\ envPc = "init"
    /\ LET step == InitSteps[initIdx] IN
       \E ok \in StepOutcomes(step) :
         /\ initLog' = Append(initLog, [ step |-> step, ok |-> ok ])
         /\ made' = IF ok /\ LeavesArtifact(step)
                    THEN made \cup { step } ELSE made
         /\ baseConf' = IF ok /\ step = "saveConf" THEN DefaultConf
                        ELSE baseConf
         /\ IF initIdx < Len(InitSteps)
            THEN /\ initIdx' = initIdx + 1
                 /\ envErr' = IF envErr = "running" /\ ~ok
                              THEN StepErr(step) ELSE envErr
                 /\ UNCHANGED << envPc, initOk >>
            ELSE /\ initOk' = ( envErr = "running" /\ ok )
                 /\ envErr' = IF envErr # "running" THEN envErr
                              ELSE IF ok THEN "nil" ELSE StepErr(step)
                 /\ envPc' = "done"
                 /\ UNCHANGED initIdx
    /\ UNCHANGED << overConf, envCmd, upOpts, upDetach, confPath, Conf,
                    worker, reached, cmds >>

\* lines 105-179: one step of initOLDir; its failure is returned at once
InitStep ==
    /\ UNCHANGED << ovVars, upVars, downVars, clVars, argVars >>
    /\ envPc = "init"
    /\ LET step == InitSteps[initIdx] IN
       \E ok \in StepOutcomes(step) :
         /\ initLog' = Append(initLog, [ step |-> step, ok |-> ok ])
         /\ made' = IF ok /\ LeavesArtifact(step)
                    THEN made \cup { step } ELSE made
         /\ baseConf' = IF ok /\ step = "saveConf" THEN DefaultConf
                        ELSE baseConf
         /\ IF ~ok
            THEN /\ envErr' = StepErr(step) /\ envPc' = "done"
                 /\ UNCHANGED << initIdx, initOk >>
            ELSE IF initIdx < Len(InitSteps)
            THEN /\ initIdx' = initIdx + 1
                 /\ UNCHANGED << envErr, envPc, initOk >>
            ELSE /\ initOk' = TRUE
                 /\ envPc' = AfterInit
                 /\ envErr' = IF envCmd = "new" THEN "nil" ELSE envErr
                 /\ UNCHANGED initIdx
    /\ UNCHANGED << overConf, envCmd, upOpts, upDetach, confPath, Conf,
                    worker, reached, cmds >>

initOLDir == InitStep

RECURSIVE applyOpts(_, _)
\* the loop of lines 40-86 over all pairs: the first failing pair ends it
applyOpts(c, pairs) ==
    IF Len(pairs) = 0 THEN [ err |-> "nil", c |-> c ]
    ELSE LET r == applyOpt(c, Head(pairs)) IN
         IF r.err # "nil" THEN r ELSE applyOpts(r.c, Tail(pairs))

\* the values of --options tried: none, a new worker-data directory, a new
\* port, both, and a key that config.json does not have
UpOptions ==
    { << >>,
      Worker_dir \o << "=" >> \o DirAlt,
      Worker_port \o << "=" >> \o Port6000,
      Worker_dir \o << "=" >> \o DirAlt \o << "," >>
         \o Worker_port \o << "=" >> \o Port6000,
      << "q","=","1" >> }

\* lines 226-241: `up` initializes olPath only if os.Stat finds nothing there
UpStart ==
    /\ UNCHANGED << ovVars, upVars, downVars, clVars, argVars >>
    /\ MayStart
    /\ envCmd' = "up" /\ envErr' = "running" /\ cmds' = cmds + 1
    /\ upOpts' \in UpOptions /\ upDetach' \in BOOLEAN
    /\ confPath' = "none" /\ Conf' = EmptyMap
    /\ initLog' = << >>
    /\ IF "mkdirRoot" \notin made
       THEN envPc' = "init" /\ initIdx' = 1
       ELSE envPc' = "override" /\ initIdx' = 0
    /\ UNCHANGED << made, baseConf, overConf, worker, reached, initOk >>

\* lines 243-252: with --options, overrideOpts writes config.json.overrides
\* from config.json and that file becomes confPath
UpOverride ==
    /\ UNCHANGED << ovVars, upVars, downVars, clVars, argVars >>
    /\ envPc = "override"
    /\ IF upOpts = << >>
       THEN /\ confPath' = "base" /\ envPc' = "load"
            /\ UNCHANGED << overConf, envErr >>
       ELSE IF baseConf.t # "object"
       THEN /\ envErr' = "readErr" /\ envPc' = "done"
            /\ UNCHANGED << overConf, confPath >>
       ELSE LET r == applyOpts(Unmarshal(baseConf).v, Split(upOpts, ",")) IN
            IF r.err # "nil"
            THEN /\ envErr' = r.err /\ envPc' = "done"
                 /\ UNCHANGED << overConf, confPath >>
            ELSE \E w \in WriteFileOutcomes :
                   /\ overConf' =
                        CASE w = "written" ->
                                 Marshal([ t |-> "map", v |-> r.c ])
                          [] w = "openErr" -> overConf
                          [] OTHER -> Truncated
                   /\ IF w = "written"
                      THEN /\ confPath' = "overrides" /\ envPc' = "load"
                           /\ UNCHANGED envErr
                      ELSE /\ envErr' = "writeErr" /\ envPc' = "done"
                           /\ UNCHANGED confPath
    /\ UNCHANGED << made, baseConf, envCmd, initIdx, initLog, upOpts,
                    upDetach, Conf, worker, reached, initOk, cmds >>

\* the file at a configuration path
FileAt(path) == IF path = "overrides" THEN overConf ELSE baseConf

\* common.LoadConf(path): decode the file into common.Conf
LoadConf(path) ==
    IF FileAt(path).t # "object" THEN [ err |-> "loadErr", Conf |-> EmptyMap ]
    ELSE [ err |-> "nil", Conf |-> Unmarshal(FileAt(path)) ]

\* UpLoad loading config.json.overrides whenever that file exists
UpLoadPrefersOverrides ==
    /\ UNCHANGED << ovVars, upVars, downVars, clVars, argVars >>
    /\ envPc = "load"
    /\ LET path == IF overConf # Absent THEN "overrides" ELSE confPath IN
         /\ confPath' = path
         /\ Conf' = LoadConf(path).Conf
         /\ IF LoadConf(path).err # "nil"
            THEN envErr' = LoadConf(path).err /\ envPc' = "done"
            ELSE envPc' = "launch" /\ UNCHANGED envErr
    /\ UNCHANGED << made, baseConf, overConf, envCmd, initIdx, initLog,
                    upOpts, upDetach, worker, reached, initOk, cmds >>

\* lines 254-256: load the configuration from confPath
UpLoad ==
    /\ UNCHANGED << ovVars, upVars, downVars, clVars, argVars >>
    /\ envPc = "load"
    /\ Conf' = LoadConf(confPath).Conf
    /\ IF LoadConf(confPath).err # "nil"
       THEN envErr' = LoadConf(confPath).err /\ envPc' = "done"
       ELSE envPc' = "launch" /\ UNCHANGED envErr
    /\ UNCHANGED << made, baseConf, overConf, envCmd, initIdx, initLog,
                    upOpts, upDetach, confPath, worker, reached, initOk,
                    cmds >>

\* how lines 261-352 can end: the child could not be started, it became
\* ready, or the readiness loop returned an error
LaunchOutcomes == { "startErr", "nil", "notReady" }

\* lines 258-359: start the worker with the configuration just loaded: as
\* a child that runs the same command (detached), or in this process
UpLaunch ==
    /\ UNCHANGED << ovVars, upVars, downVars, clVars, argVars >>
    /\ envPc = "launch"
    /\ IF upDetach
       THEN \E res \in LaunchOutcomes :
              /\ envErr' = res /\ envPc' = "done"
              /\ worker' = IF res = "nil"
                           THEN [ up |-> TRUE, conf |-> Conf ] ELSE worker
       ELSE /\ worker' = [ up |-> TRUE, conf |-> Conf ]
            /\ envPc' = "serving" /\ UNCHANGED envErr
    /\ UNCHANGED << made, baseConf, overConf, envCmd, initIdx, initLog,
                    upOpts, upDetach, confPath, Conf, reached, initOk, cmds >>

\* lines 354-358: server.Main has returned, which is an error either way
UpServerReturns ==
    /\ UNCHANGED << ovVars, upVars, downVars, clVars, argVars >>
    /\ envPc = "serving"
    /\ envErr' \in { "serverErr", "unreachable" }
    /\ worker' = NoWorker /\ envPc' = "done"
    /\ UNCHANGED << made, baseConf, overConf, envCmd, initIdx, initLog,
                    upOpts, upDetach, confPath, Conf, reached, initOk, cmds >>

\* the worker-data directory and the port that a loaded configuration names
WorkerDirOf(c) == c.v[Worker_dir].v
WorkerPortOf(c) == c.v[Worker_port].v

\* lines 362-404: `down` loads config.json, reads worker.pid in the
\* worker-data directory it names, and stops the process recorded there
DownCmd ==
    /\ UNCHANGED << ovVars, upVars, downVars, clVars, argVars >>
    /\ MayStart
    /\ envCmd' = "down" /\ cmds' = cmds + 1 /\ envPc' = "done"
    /\ initIdx' = 0 /\ initLog' = << >>
    /\ LET l == LoadConf("base") IN
         /\ Conf' = l.Conf
         /\ IF l.err # "nil"
            THEN /\ envErr' = l.err /\ reached' = NothingReached
                 /\ UNCHANGED worker
            ELSE /\ reached' = [ op |-> "down", dir |-> WorkerDirOf(l.Conf),
                                 port |-> << >> ]
                 /\ envErr' \in { "readErr", "nil", "timeout" }
                 /\ worker' = IF envErr' = "nil" /\ worker.up
                                 /\ WorkerDirOf(worker.conf)
                                       = WorkerDirOf(l.Conf)
                              THEN NoWorker ELSE worker
    /\ UNCHANGED << made, baseConf, overConf, upOpts, upDetach, confPath,
                    initOk >>

\* lines 193-219: `status` loads config.json and queries the port it names
StatusCmd ==
    /\ UNCHANGED << ovVars, upVars, downVars, clVars, argVars >>
    /\ MayStart
    /\ envCmd' = "status" /\ cmds' = cmds + 1 /\ envPc' = "done"
    /\ initIdx' = 0 /\ initLog' = << >>
    /\ LET l == LoadConf("base") IN
         /\ Conf' = l.Conf
         /\ IF l.err # "nil"
            THEN envErr' = l.err /\ reached' = NothingReached
            ELSE /\ reached' = [ op |-> "status", dir |-> << >>,
                                 port |-> WorkerPortOf(l.Conf) ]
                 /\ envErr' \in { "getErr", "nil" }
    /\ UNCHANGED << made, baseConf, overConf, upOpts, upDetach, confPath,
                    worker, initOk >>

\* lines 407-467: `force-cleanup` loads no configuration; the PID file it
\* removes is <olPath>/worker/worker.pid
CleanupCmd ==
    /\ UNCHANGED << ovVars, upVars, downVars, clVars, argVars >>
    /\ MayStart
    /\ envCmd' = "force-cleanup" /\ cmds' = cmds + 1 /\ envPc' = "done"
    /\ initIdx' = 0 /\ initLog' = << >>
    /\ Conf' = EmptyMap /\ envErr' = "nil"
    /\ reached' = [ op |-> "force-cleanup", dir |-> DirWorker,
                    port |-> << >> ]
    /\ UNCHANGED << made, baseConf, overConf, upOpts, upDetach, confPath,
                    worker, initOk >>

NextEnv ==
    \/ NewStart \/ UpStart \/ initOLDir
    \/ UpOverride \/ UpLoad \/ UpLaunch \/ UpServerReturns
    \/ DownCmd \/ StatusCmd \/ CleanupCmd

InitEnv == EnvInit /\ OvIdle /\ UpIdle /\ DownIdle /\ ClIdle /\ ArgIdle

SpecEnv == InitEnv /\ [][NextEnv]_vars

(***************************************************************************)
(* Properties of the commands on one environment path.                     *)
(***************************************************************************)
\* the current initOLDir has attempted a step, and the last one failed
InitFailed == initLog # << >> /\ ~initLog[Len(initLog)].ok

\* the current initOLDir has returned
InitReturned == initLog # << >> /\ envPc # "init"

\* C12: initOLDir attempts its steps in the order of InitSteps, a step only
\* after every earlier step succeeded; the first failing step ends it with
\* that step's error and no later step is attempted; it returns nil only
\* after all steps succeeded; and what the steps that succeeded created is
\* still there when it returns.
C12_StepsInOrderFirstFailureReturned ==
    /\ Len(initLog) <= Len(InitSteps)
    /\ \A k \in 1..Len(initLog) :
          /\ initLog[k].step = InitSteps[k]
          /\ k < Len(initLog) => initLog[k].ok
          /\ ( initLog[k].ok /\ LeavesArtifact(initLog[k].step) )
                => initLog[k].step \in made
    /\ InitFailed =>
          /\ envPc = "done"
          /\ envErr = StepErr(initLog[Len(initLog)].step)
    /\ ( InitReturned /\ ~InitFailed ) =>
          /\ Len(initLog) = Len(InitSteps)
          /\ envErr \notin { StepErr(InitSteps[k]) : k \in 1..Len(InitSteps) }
          /\ envCmd = "new" => envErr = "nil"

\* C12 witness: the initOLDir of an `up` was ended by the export of the
\* base image; the root, config.json and the two directories remain.
C12_Witness ==
    /\ envCmd = "up" /\ envPc = "done" /\ envErr = StepErr("dumpImage")
    /\ Len(initLog) = 7
    /\ made = { "mkdirRoot", "saveConf", "mkdirWorker", "mkdirRegistry" }
    /\ baseConf = DefaultConf

\* the current `up` has loaded a configuration
UpLoaded == envCmd = "up" /\ envPc \in { "launch", "serving", "done" }
            /\ Conf # EmptyMap

\* C13 as stated: whenever a config.json.overrides that was written in full
\* is present when `up` loads its configuration, the file it loads is
\* config.json.overrides, with and without --options.
C13_Original ==
    ( UpLoaded /\ overConf.t = "object" ) => confPath = "overrides"

\* the tree that overrideOpts makes of config.json and the current options
Derived ==
    Marshal([ t |-> "map",
              v |-> applyOpts(Unmarshal(baseConf).v, Split(upOpts, ",")).c ])

\* C13 (amended): `up` loads config.json.overrides exactly when it was given
\* a non-empty --options, and the file then holds what this run derived
\* from config.json and those options; without --options `up` loads
\* config.json, whether or not a config.json.overrides is present.
C13_DerivativeOnlyWithOptions ==
    /\ ( envCmd = "up" /\ envPc = "load" ) =>
          ( confPath = "overrides" <=> upOpts # << >> )
    /\ UpLoaded =>
          /\ confPath = "overrides" <=> upOpts # << >>
          /\ confPath = "overrides" =>
                ( overConf = Derived /\ Conf = Unmarshal(overConf) )
          /\ confPath = "base" => Conf = Unmarshal(baseConf)

\* C13 witness: an `up` without --options has loaded config.json while the
\* config.json.overrides of an earlier run, which differs, was present.
C13_Witness ==
    /\ UpLoaded /\ upOpts = << >> /\ confPath = "base"
    /\ overConf.t = "object" /\ overConf # baseConf
    /\ WorkerPortOf(Conf) = Port5000
    /\ At(overConf, << Worker_port >>).v = Port6000

\* the current `up` has gone on to load its configuration or further
UpProceeded == envCmd = "up" /\ envPc \in { "load", "launch", "serving" }

\* C19 as stated: over every sequence of `new` and `up` on the path, also
\* when an initialization was aborted at some step, `up` goes on to load
\* the configuration and start the worker only when all steps of an
\* initialization of the path have succeeded.
C19_UpOnlyOnCompleteEnvironment ==
    ( UpProceeded \/ worker.up ) => initOk

\* C19 witness: a worker was started on a path whose only initialization
\* was ended by the export of the base image, so that the handler, host and
\* packages directories, resolv.conf and the device nodes are missing.
C19_Witness ==
    /\ worker.up /\ envCmd = "up" /\ ~initOk
    /\ made = { "mkdirRoot", "saveConf", "mkdirWorker", "mkdirRegistry" }

\* what `up` does check: it goes on only when the root directory exists,
\* and an initialization it ran itself has then succeeded in full
C19_UpOnlyWhenRootExists ==
    UpProceeded =>
       /\ "mkdirRoot" \in made
       /\ initLog # << >> =>
             ( initOk /\ Len(initLog) = Len(InitSteps) /\ ~InitFailed )

\* the command that returned last is a teardown that got as far as its
\* target while a worker started by `up --detach` is running
TeardownOf(op) ==
    worker.up /\ envPc = "done" /\ envCmd = op /\ reached.op = op

\* C20 as stated: after an `up --detach`, with or without --options,
\* `down` reads and `force-cleanup` removes the PID file in the worker-data
\* directory of the configuration the running worker uses, and `status`
\* queries the port that worker listens on.
C20_TeardownAddressesTheWorker ==
    /\ TeardownOf("down") => reached.dir = WorkerDirOf(worker.conf)
    /\ TeardownOf("force-cleanup") => reached.dir = WorkerDirOf(worker.conf)
    /\ TeardownOf("status") => reached.port = WorkerPortOf(worker.conf)

\* C20 witness: `status` queried the port of config.json while the running
\* worker, started with --options, was found ready on another port.
C20_Witness ==
    /\ TeardownOf("status") /\ reached.port = Port5000
    /\ WorkerPortOf(worker.conf) = Port6000
    /\ WorkerDirOf(worker.conf) = DirWorker

\* what the teardown commands do address: `down` and `status` the
\* directory and the port that config.json names, `force-cleanup` the
\* directory worker under the path; that is the running worker's when it
\* was started without --options
C20_TeardownFollowsConfigJson ==
    /\ TeardownOf("down") => reached.dir = WorkerDirOf(Unmarshal(baseConf))
    /\ TeardownOf("status") =>
          reached.port = WorkerPortOf(Unmarshal(baseConf))
    /\ TeardownOf("force-cleanup") => reached.dir = DirWorker
    /\ ( worker.up /\ worker.conf = Unmarshal(baseConf) ) =>
          C20_TeardownAddressesTheWorker

(***************************************************************************)
(* The argument list that `up --detach` hands to the child (lines          *)
(* 280-296) and the parsing of the flags of `up` (lines 493-504).  The     *)
(* flags are registered with Go's flag package, which accepts -name and    *)
(* --name, with =value or, for a flag that is not boolean, with the value  *)
(* in the next argument.                                                   *)
(***************************************************************************)
\* the most arguments after the command name
MaxArgs == 3
\* the most detached children started one by another
MaxDepth == 2

\* the names under which the flags of `up` are registered (lines 470-504)
StringFlagNames ==
    { << "p","a","t","h" >>, << "p" >>, << "i","m","a","g","e" >>, << "i" >>,
      << "o","p","t","i","o","n","s" >>, << "o" >> }
DetachFlagNames == { << "d","e","t","a","c","h" >>, << "d" >> }

\* the flag that a name stands for
Canonical(name) ==
    CASE name \in { << "p","a","t","h" >>, << "p" >> } -> "path"
      [] name \in { << "i","m","a","g","e" >>, << "i" >> } -> "image"
      [] OTHER -> "options"

\* strconv.ParseBool, which sets a boolean flag given as -name=value
TrueTexts ==
    { << "1" >>, << "t" >>, << "T" >>, << "t","r","u","e" >>,
      << "T","R","U","E" >>, << "T","r","u","e" >> }
FalseTexts ==
    { << "0" >>, << "f" >>, << "F" >>, << "f","a","l","s","e" >>,
      << "F","A","L","S","E" >>, << "F","a","l","s","e" >> }

NoFlags ==
    [ ok |-> TRUE, detach |-> FALSE, occ |-> { }, rest |-> 0,
      vals |-> [ path |-> << >>, image |-> << >>, options |-> << >> ] ]

RECURSIVE ParseFrom(_, _, _)
\* flag.FlagSet.Parse from argument k on, with the flags set so far in acc:
\* ok, the value of detach, the arguments that set detach, the index of the
\* first argument that is no flag (0 if none), and the string flags
ParseFrom(args, k, acc) ==
    IF k > Len(args) THEN acc
    ELSE LET s == args[k]
             twoDashes == Len(s) >= 2 /\ s[2] = "-"
             name0 == IF twoDashes THEN SubSeq(s, 3, Len(s)) ELSE Tail(s)
             eq == IF Len(name0) = 0 THEN 0 ELSE IndexOf(Tail(name0), "=")
             name == IF eq > 0 THEN SubSeq(name0, 1, eq) ELSE name0
             value == SubSeq(name0, eq + 2, Len(name0))
         IN
         IF Len(s) < 2 \/ s[1] # "-" THEN [ acc EXCEPT !.rest = k ]
         ELSE IF s = << "-","-" >> THEN [ acc EXCEPT !.rest = k ]
         ELSE IF Len(name0) = 0 \/ name0[1] \in { "-", "=" }
         THEN [ acc EXCEPT !.ok = FALSE ]
         ELSE IF name \in DetachFlagNames
         THEN IF eq = 0
              THEN ParseFrom(args, k + 1,
                       [ acc EXCEPT !.detach = TRUE, !.occ = @ \cup { k } ])
              ELSE IF value \in TrueTexts \cup FalseTexts
              THEN ParseFrom(args, k + 1,
                       [ acc EXCEPT !.detach = ( value \in TrueTexts ),
                                    !.occ = @ \cup { k } ])
              ELSE [ acc EXCEPT !.ok = FALSE ]
         ELSE IF name \in StringFlagNames
         THEN IF eq > 0
              THEN ParseFrom(args, k + 1,
                       [ acc EXCEPT !.vals[Canonical(name)] = value ])
              ELSE IF k + 1 <= Len(args)
              THEN ParseFrom(args, k + 2,
                       [ acc EXCEPT !.vals[Canonical(name)] = args[k + 1] ])
              ELSE [ acc EXCEPT !.ok = FALSE ]
         ELSE [ acc EXCEPT !.ok = FALSE ]

\* os.Args up to the command name, which the flags follow
ProgArgs == << << "o","l" >>, << "w","o","r","k","e","r" >>, << "u","p" >> >>

\* the flags of a whole argument list
Parse(args) ==
    LET p == ParseFrom(SubSeq(args, Len(ProgArgs) + 1, Len(args)), 1, NoFlags)
    IN [ p EXCEPT !.occ = { k + Len(ProgArgs) : k \in p.occ } ]

\* the arguments tried after the command name: the forms that set detach,
\* one that clears it, a string flag and a value
ArgTokens ==
    { << "-","d" >>, << "-","-","d","e","t","a","c","h" >>,
      << "-","d","e","t","a","c","h" >>, << "-","-","d","=","1" >>,
      << "-","-","d","e","t","a","c","h","=","f","a","l","s","e" >>,
      << "-","p" >>, << "x" >> }

RECURSIVE TokenLists(_)
TokenLists(n) ==
    IF n = 0 THEN { << >> }
    ELSE TokenLists(n-1) \cup
         { l \o << t >> : l \in { x \in TokenLists(n-1) : Len(x) = n-1 },
                          t \in ArgTokens }

\* the command lines that reach `up`: the parse succeeded and left no
\* argument over
ArgLists ==
    { ProgArgs \o l : l \in
        { l \in TokenLists(MaxArgs) :
            LET p == ParseFrom(l, 1, NoFlags) IN p.ok /\ p.rest = 0 } }

ArgInit ==
    /\ osArgs \in ArgLists
    /\ argPc = "parse" /\ argIdx = 0 /\ cmd = << >> /\ depth = 0

\* line 259: the process has parsed its flags; without detach it serves in
\* the foreground, and a child whose arguments do not parse ends at once
ArgParse ==
    /\ UNCHANGED << ovVars, upVars, downVars, clVars, envVars >>
    /\ argPc = "parse"
    /\ LET p == Parse(osArgs) IN
         IF ~p.ok \/ p.rest # 0 THEN argPc' = "usageErr" /\ UNCHANGED argIdx
         ELSE IF p.detach THEN argPc' = "strip" /\ argIdx' = 1
         ELSE argPc' = "serving" /\ UNCHANGED argIdx
    /\ cmd' = << >>
    /\ UNCHANGED << osArgs, depth >>

\* lines 281-285: one argument of os.Args is copied unless it is -d or
\* --detach
ArgStrip ==
    /\ UNCHANGED << ovVars, upVars, downVars, clVars, envVars >>
    /\ argPc = "strip" /\ argIdx <= Len(osArgs)
    /\ cmd' = IF osArgs[argIdx] # << "-","d" >>
                 /\ osArgs[argIdx] # << "-","-","d","e","t","a","c","h" >>
              THEN Append(cmd, osArgs[argIdx]) ELSE cmd
    /\ argIdx' = argIdx + 1
    /\ UNCHANGED << osArgs, argPc, depth >>

\* lines 286-296: the child is started with cmd as its os.Args, and runs
\* the same program
ArgStartChild ==
    /\ UNCHANGED << ovVars, upVars, downVars, clVars, envVars >>
    /\ argPc = "strip" /\ argIdx > Len(osArgs)
    /\ depth < MaxDepth
    /\ osArgs' = cmd /\ depth' = depth + 1
    /\ argPc' = "parse" /\ argIdx' = 0
    /\ UNCHANGED cmd

NextArgs == ArgParse \/ ArgStrip \/ ArgStartChild

InitArgs == ArgInit /\ OvIdle /\ UpIdle /\ DownIdle /\ ClIdle /\ EnvIdle

SpecArgs == InitArgs /\ [][NextArgs]_vars

\* the argument list without the arguments that set or clear detach
RECURSIVE Without(_, _, _)
Without(args, occ, k) ==
    IF k > Len(args) THEN << >>
    ELSE ( IF k \in occ THEN << >> ELSE << args[k] >> )
         \o Without(args, occ, k + 1)

DetachRemoved(args) == Without(args, Parse(args).occ, 1)

\* C14 as stated: the argument list built for the child is the parent's in
\* the same order without every argument that gives the detach flag, in
\* any form the flag is accepted in; the child's arguments parse to the
\* same path, image and options with detach off, so that the child serves
\* in the foreground and starts no detached child of its own.
C14_ChildRunsInForeground ==
    /\ ( argPc = "strip" /\ argIdx > Len(osArgs) ) =>
          /\ cmd = DetachRemoved(osArgs)
          /\ Parse(cmd).ok /\ ~Parse(cmd).detach
          /\ Parse(cmd).vals = Parse(osArgs).vals
    /\ depth >= 1 => argPc \in { "parse", "serving" }

\* C14 witness: the child of an `up` that was given --d=1 has itself
\* started a detached child with the same arguments.
C14_Witness ==
    /\ depth = 2 /\ argPc = "parse"
    /\ osArgs = ProgArgs \o << << "-","-","d","=","1" >> >>

\* every argument of the first command line that gives the detach flag is
\* spelled -d or --detach, and no such text is the value of another flag
OnlyTheTwoSpellings(args) ==
    \A k \in 1..Len(args) :
        ( args[k] \in { << "-","d" >>, << "-","-","d","e","t","a","c","h" >> } )
           <=> k \in Parse(args).occ

\* what holds in place of C14: the statement holds of every command line
\* whose detach flags are all spelled -d or --detach.
C14_HoldsForTheTwoSpellings ==
    ( depth = 0 /\ argPc = "strip" /\ argIdx > Len(osArgs)
      /\ OnlyTheTwoSpellings(osArgs) ) =>
        /\ cmd = DetachRemoved(osArgs)
        /\ Parse(cmd).ok /\ ~Parse(cmd).detach /\ Parse(cmd).rest = 0
        /\ Parse(cmd).vals = Parse(osArgs).vals

====
